---- MODULE Spec2Model ----
(***************************************************************************)
(* Model of the battleship-rs two-player session engine (src/src/server.rs) *)
(* and of the board functions it uses (src/src/game_state.rs).             *)
(*                                                                         *)
(* Grids are functions grid[y][x] over 0..GRID_SIZE-1, as the source's     *)
(* Vec<Vec<CellState>> indexed grid[y][x].  An Option<T> is a sequence of  *)
(* length 0 (None) or 1 (Some(v)).  Messages are tuples whose first        *)
(* element is the variant name of types.rs Message.                        *)
(***************************************************************************)
EXTENDS Integers, Sequences, FiniteSets, TLC

\* ---------------------------------------------------------------- bounds
\* Side of the square grid.  types.rs sets GRID_SIZE = 10; the model scales
\* the board down so that every cell pattern of both boards is enumerated.
GRID_SIZE == 2
\* CardUsed lines the peers send in one game (both peers together).
MaxCards == 1
\* Ships of a fleet the board functions are tried on.
MaxShips == 2

\* ------------------------------------------------------ program constants
\* Length of SHIPS[4], the Destroyer, restored by a successful last stand.
DESTROYER_LEN == 2
\* Duration::from_secs(10): the last-stand reply window.
LAST_STAND_SECS == 10
\* Duration::from_secs(30): the play-again window.
PLAY_AGAIN_SECS == 30
\* Seconds by which one step of the modelled clock advances a timer.
TICK_SECS == 20

\* ------------------------------------------------------------ data model
Empty == "Empty"
Ship == "Ship"
Hit == "Hit"
Miss == "Miss"
CellState == {Empty, Ship, Hit, Miss}

Shield == "Shield"
Radar == "Radar"
Repair == "Repair"
MissileStrike == "MissileStrike"
PowerUp == {Shield, Radar, Repair, MissileStrike}

Coord == 0 .. (GRID_SIZE - 1)
Peers == {0, 1}
Other(p) == 1 - p

None == << >>
Some(v) == << v >>
IsSome(o) == Len(o) = 1
Unwrap(o) == o[1]

EmptyGrid == [y \in Coord |-> [x \in Coord |-> Empty]]

SetCell(grid, x, y, c) == [grid EXCEPT ![y][x] = c]

\* -------------------------------------------------- server.rs board helpers
\* Variant: the bounds test is off by one and rejects a ship that ends on
\* the last column or row.
can_place_ship_short(grid, x, y, length, horizontal) ==
    IF horizontal
    THEN /\ ~(x + length >= GRID_SIZE)
         /\ \A i \in 0 .. (length - 1) : grid[y][x + i] = Empty
    ELSE /\ ~(y + length >= GRID_SIZE)
         /\ \A i \in 0 .. (length - 1) : grid[y + i][x] = Empty

can_place_ship(grid, x, y, length, horizontal) ==
    IF horizontal
    THEN /\ ~(x + length > GRID_SIZE)
         /\ \A i \in 0 .. (length - 1) : grid[y][x + i] = Empty
    ELSE /\ ~(y + length > GRID_SIZE)
         /\ \A i \in 0 .. (length - 1) : grid[y + i][x] = Empty

place_ship(grid, x, y, length, horizontal) ==
    IF horizontal
    THEN [yy \in Coord |-> [xx \in Coord |->
            IF yy = y /\ xx >= x /\ xx < x + length THEN Ship ELSE grid[yy][xx]]]
    ELSE [yy \in Coord |-> [xx \in Coord |->
            IF xx = x /\ yy >= y /\ yy < y + length THEN Ship ELSE grid[yy][xx]]]

\* ------------------------------------------------- game_state.rs functions
all_ships_sunk(grid) == ~(\E y \in Coord : \E x \in Coord : grid[y][x] = Ship)

ShipOrHit(c) == c \in {Ship, Hit}

\* The four scanning loops of is_ship_sunk_at: walk while the cell is
\* Ship|Hit, return false at the first Ship, true when the run ends.
RECURSIVE ScanX(_, _, _, _)
ScanX(grid, y, cx, step) ==
    IF cx >= 0 /\ cx < GRID_SIZE /\ ShipOrHit(grid[y][cx])
    THEN IF grid[y][cx] = Ship THEN FALSE ELSE ScanX(grid, y, cx + step, step)
    ELSE TRUE

RECURSIVE ScanY(_, _, _, _)
ScanY(grid, x, cy, step) ==
    IF cy >= 0 /\ cy < GRID_SIZE /\ ShipOrHit(grid[cy][x])
    THEN IF grid[cy][x] = Ship THEN FALSE ELSE ScanY(grid, x, cy + step, step)
    ELSE TRUE

is_ship_sunk_at(grid, x, y) ==
    LET horiz == \/ (x > 0 /\ ShipOrHit(grid[y][x - 1]))
                 \/ (x + 1 < GRID_SIZE /\ ShipOrHit(grid[y][x + 1]))
    IN  IF horiz
        THEN ScanX(grid, y, x, -1) /\ ScanX(grid, y, x + 1, 1)
        ELSE ScanY(grid, x, y, -1) /\ ScanY(grid, x, y + 1, 1)


\* ------------------------------------------------------------- messages
\* types.rs Message variants, as tuples <<variant, payload...>>.
PlaceShipsMsg(g) == <<"PlaceShips", g>>
AttackMsg(x, y) == <<"Attack", x, y>>
AttackResultMsg(x, y, hit, sunk) == <<"AttackResult", x, y, hit, sunk>>
YourTurnMsg == <<"YourTurn">>
OpponentTurnMsg == <<"OpponentTurn">>
GameOverMsg(won) == <<"GameOver", won>>
WaitingForOpponentMsg == <<"WaitingForOpponent">>
GameStartMsg == <<"GameStart">>
PlayAgainRequestMsg == <<"PlayAgainRequest">>
PlayAgainResponseMsg(w) == <<"PlayAgainResponse", w>>
OpponentQuitMsg == <<"OpponentQuit">>
NewGameStartMsg == <<"NewGameStart">>
LastStandTriggerMsg == <<"LastStandTrigger">>
LastStandResultMsg(s) == <<"LastStandResult", s>>
CardUsedMsg(card) == <<"CardUsed", card>>
\* CardEffect.data is a comma-joined string; it is kept as its token list.
CardEffectMsg(effect_type, data) == <<"CardEffect", effect_type, data>>
GridUpdateMsg(g) == <<"GridUpdate", g>>
QuitMsg == <<"Quit">>

\* A line whose payload no handler read is recorded by its variant alone.
Variant(m) == << m[1] >>

\* A written line: the destination peer and the message.
To(p, m) == <<p, m>>

\* ---------------------------------------------------------------- inputs
\* PlaceShips carries whatever grid the peer sends (run_server records it
\* unchecked); the peers of the model send this placement: one Destroyer
\* along the top row, the rest of the board Empty.
Fleets == { place_ship(EmptyGrid, 0, 0, DESTROYER_LEN, TRUE) }

\* Lines the main loop matches with `_ => {}` whatever the state.
\* LastStandResult stands for every variant the match does not name.
IgnoredMsgs == {LastStandResultMsg(s) : s \in BOOLEAN}

InMsgs ==
    {PlaceShipsMsg(g) : g \in Fleets}
    \cup {AttackMsg(x, y) : x \in Coord, y \in Coord}
    \cup {PlayAgainResponseMsg(w) : w \in BOOLEAN}
    \cup {CardUsedMsg(c) : c \in PowerUp}
    \cup {QuitMsg}
    \cup IgnoredMsgs

\* --------------------------------------------------------------- state
VARIABLES
    grid,             \* p1.grid, p2.grid : Option<grid>, by peer index
    ready,            \* p1.ready, p2.ready
    last_stand_used,  \* p1.last_stand_used, p2.last_stand_used
    current_turn,     \* 0 = player 1, 1 = player 2
    game_over,        \* loop flag of run_server
    play_again_state, \* PlayAgainState
    pc,               \* position in the loop body of run_server
    ls_target,        \* peer whose LastStandResult the nested loop awaits
    ls_elapsed,       \* timeout_start.elapsed() of the nested last-stand loop
    eof,              \* the peer's reader has returned Ok(0)
    cards_used,       \* CardUsed lines handled in the current game
    sent,             \* lines written by the latest step, in order
    event,            \* what the latest step consumed
    trigger_count,    \* LastStandTrigger lines written to each peer since
                      \* session creation or the latest reset
    board,            \* a grid the board functions are applied to
    ships,            \* the placements that made `board`: <<x, y, length, horizontal>>
    shot,             \* the latest call on `board` and what the functions returned
    current_hand,     \* GameState.current_hand of a client
    ai_hand,          \* ai_hand of the AI session
    inbox,            \* lines written to the client and not yet handled by it
    hits,             \* hits the client has scored in the current game
    own_grid,         \* GameState.own_grid of the client
    enemy_grid,       \* GameState.enemy_grid of the client
    shield_active,    \* GameState.shield_active of the client
    phase,            \* GameState.phase of the client
    outbox,           \* lines written by the client and not yet read by the server
    tried_positions,  \* tried_positions of a running restore_random_ship
    returned,         \* what that call returned, None while it runs
    last_stand_input, \* GameState.last_stand_input of the client
    opp_phase,        \* GameState.phase of the client of the other peer
    ai_fired,         \* ai_fired of the AI session
    ai_shield_active  \* ai_shield_active of the AI session

engine == <<grid, ready, last_stand_used, current_turn, game_over,
            play_again_state>>
vars == <<grid, ready, last_stand_used, current_turn, game_over,
          play_again_state, pc, ls_target, ls_elapsed, eof, cards_used, sent,
          event, trigger_count, board, ships, shot, current_hand, ai_hand,
          inbox, hits, own_grid, enemy_grid, shield_active, phase, outbox,
          tried_positions, returned, last_stand_input, opp_phase, ai_fired,
          ai_shield_active>>
\* The variables of the board-function specifications; the session engine
\* never touches them.
bench == <<board, ships, shot, current_hand, ai_hand, inbox, hits, own_grid,
           enemy_grid, shield_active, phase, outbox, tried_positions, returned,
           last_stand_input, opp_phase, ai_fired, ai_shield_active>>
\* The variables of the card-hand specification.
hands == <<current_hand, ai_hand, inbox, hits>>
\* GameState::new and the locals of the AI session: both hands empty.
HandsInit ==
    /\ current_hand = << >>
    /\ ai_hand = << >>
    /\ inbox = << >>
    /\ hits = 0
\* The variables of the client's view of a game.
view == <<own_grid, enemy_grid, shield_active, phase, outbox>>
\* GameState::new: empty grids, no shield, phase Placing; nothing written.
ClientInit ==
    /\ own_grid = EmptyGrid
    /\ enemy_grid = EmptyGrid
    /\ shield_active = FALSE
    /\ phase = "Placing"
    /\ outbox = << >>
\* The locals of a restore_random_ship call that has sampled nothing yet.
probe == <<tried_positions, returned>>
ProbeInit ==
    /\ tried_positions = {}
    /\ returned = None
\* The second client and the locals of the AI session before a game.
side == <<last_stand_input, opp_phase, ai_fired, ai_shield_active>>
SideInit ==
    /\ last_stand_input = << >>
    /\ opp_phase = "Placing"
    /\ ai_fired = [y \in Coord |-> [x \in Coord |-> FALSE]]
    /\ ai_shield_active = FALSE

\* PlayAgainState.  Only WaitingForResponses carries fields; the other
\* variants keep them at fixed values.  An Instant is represented by the
\* reading of its elapsed(), in seconds: 0 when taken by Instant::now().
PAS(tag, r1, r2, el) ==
    [tag |-> tag, p1_response |-> r1, p2_response |-> r2, elapsed |-> el]
PANone == PAS("None", None, None, 0)
PATimeout == PAS("Timeout", None, None, 0)
PABothAgreed == PAS("BothAgreed", None, None, 0)
PAOneDeclined == PAS("OneDeclined", None, None, 0)
PAWaiting(r1, r2, ts) == PAS("WaitingForResponses", r1, r2, ts)

ReaderPc(p) == IF p = 0 THEN "read_p1" ELSE "read_p2"
\* Where control goes when the handler of peer p's line falls through.
AfterHandler(p) == IF p = 0 THEN "read_p2" ELSE "play_again"
\* `while !game_over`: the loop condition, evaluated at the top.
LoopTop(go) == IF go THEN "done" ELSE "read_p1"

EngineInit ==
    /\ grid = [p \in Peers |-> None]
    /\ ready = [p \in Peers |-> FALSE]
    /\ last_stand_used = [p \in Peers |-> FALSE]
    /\ current_turn = 0
    /\ game_over = FALSE
    /\ play_again_state = PANone
    /\ pc = "read_p1"
    /\ ls_target = 0
    /\ ls_elapsed = 0
    /\ eof = [p \in Peers |-> FALSE]
    /\ cards_used = 0
    /\ sent = << >>
    /\ event = <<"init">>
    /\ trigger_count = [p \in Peers |-> 0]

Init ==
    /\ EngineInit
    /\ HandsInit
    /\ ClientInit
    /\ ProbeInit
    /\ SideInit
    /\ board = EmptyGrid
    /\ ships = << >>
    /\ shot = << >>


\* ------------------------------------------------- lines written together
\* Variant: the opening turn is announced the wrong way round.
GameStartLines_swapped ==
    << To(0, GameStartMsg), To(1, GameStartMsg),
       To(0, OpponentTurnMsg), To(1, YourTurnMsg) >>

\* GameStart to both, then YourTurn to player 1 and OpponentTurn to player 2.
GameStartLines ==
    << To(0, GameStartMsg), To(1, GameStartMsg),
       To(0, YourTurnMsg), To(1, OpponentTurnMsg) >>

\* "Switch turn": the lines written after current_turn became `next`.
SwitchTurnLines(next) ==
    << To(0, IF next = 0 THEN YourTurnMsg ELSE OpponentTurnMsg),
       To(1, IF next = 1 THEN YourTurnMsg ELSE OpponentTurnMsg) >>

\* The game-over lines with the two `won` flags exchanged.
GameOverLines_swapped(winner) ==
    << To(0, GameOverMsg(winner # 0)), To(1, GameOverMsg(winner # 1)),
       To(0, PlayAgainRequestMsg), To(1, PlayAgainRequestMsg) >>

\* "Send game over messages" and "Start play again process".
GameOverLines(winner) ==
    << To(0, GameOverMsg(winner = 0)), To(1, GameOverMsg(winner = 1)),
       To(0, PlayAgainRequestMsg), To(1, PlayAgainRequestMsg) >>

\* Frame of a handler that touches neither the nested loop nor the streams.
MainFrame == UNCHANGED <<ls_target, ls_elapsed, eof>>

\* A line the match falls through on: `_ => {}` or a failed guard.
Ignore(p) ==
    /\ pc' = AfterHandler(p)
    /\ sent' = << >>
    /\ UNCHANGED <<engine, trigger_count, cards_used>>
    /\ MainFrame

\* A reader can deliver a line while its stream has not ended.
CanRead(p) == pc = ReaderPc(p) /\ ~eof[p]

\* ----------------------------------------------------------- PlaceShips
PlaceShips(p, g) ==
    /\ UNCHANGED bench
    /\ CanRead(p)
    /\ event' = <<"msg", p, PlaceShipsMsg(g)>>
    /\ grid' = [grid EXCEPT ![p] = Some(g)]
    /\ ready' = [ready EXCEPT ![p] = TRUE]
    /\ sent' = IF ready[Other(p)]
               THEN GameStartLines
               ELSE << To(p, WaitingForOpponentMsg) >>
    /\ pc' = AfterHandler(p)
    /\ UNCHANGED <<last_stand_used, current_turn, game_over, play_again_state,
                   trigger_count, cards_used>>
    /\ MainFrame

\* --------------------------------------------------------------- Attack
\* Variant: the guard forgets whose turn it is.
AttackGuard_noturn(p) == ready[0] /\ ready[1]

\* The match guard `current_turn == p && p1.ready && p2.ready`.
AttackGuard(p) == current_turn = p /\ ready[0] /\ ready[1]

\* Variant: a shot that finds no Ship marks the cell Miss, as the client's
\* own-grid view does.
AttackedGrid_miss(g, x, y) ==
    SetCell(g, x, y, IF g[y][x] = Ship THEN Hit ELSE Miss)

\* The target's grid after the shot: a Ship cell becomes Hit.
AttackedGrid(g, x, y) == IF g[y][x] = Ship THEN SetCell(g, x, y, Hit) ELSE g

AttackLines(p, g, x, y) ==
    LET hit == g[y][x] = Ship
        sunk == IF hit THEN is_ship_sunk_at(AttackedGrid(g, x, y), x, y)
                       ELSE FALSE
    IN  << To(p, AttackResultMsg(x, y, hit, sunk)), To(Other(p), AttackMsg(x, y)) >>

\* Variant: the used flag is not consulted.
LastStandAvailable_always(t) == TRUE

\* Variant: the last stand is never offered.
LastStandAvailable_never(t) == FALSE

\* The target may still be offered its last stand.
LastStandAvailable(t) == ~last_stand_used[t]

\* Variant: the turn stays with the attacker.
NextTurn_stay(p) == p

\* The peer given the turn after a shot by p that did not sink everything.
NextTurn(p) == Other(p)

\* The Attack arm of peer p's match, on the session state alone.
AttackArm(p, x, y) ==
    /\ CanRead(p)
    /\ UNCHANGED cards_used
    /\ event' = IF AttackGuard(p) /\ IsSome(grid[Other(p)])
                THEN <<"msg", p, AttackMsg(x, y)>>
                ELSE <<"msg", p, Variant(AttackMsg(x, y))>>
    /\ IF AttackGuard(p) /\ IsSome(grid[Other(p)])
       THEN LET t == Other(p)
                g == Unwrap(grid[t])
                g2 == AttackedGrid(g, x, y)
            IN  /\ grid' = [grid EXCEPT ![t] = Some(g2)]
                /\ IF all_ships_sunk(g2)
                   THEN IF LastStandAvailable(t)
                        THEN \* open the challenge and block on t's reader
                             /\ last_stand_used' = [last_stand_used EXCEPT ![t] = TRUE]
                             /\ sent' = AttackLines(p, g, x, y)
                                        \o << To(t, LastStandTriggerMsg) >>
                             /\ trigger_count' =
                                  [trigger_count EXCEPT ![t] =
                                      IF @ < 2 THEN @ + 1 ELSE @]
                             /\ pc' = "last_stand"
                             /\ ls_target' = t
                             /\ ls_elapsed' = 0
                             /\ UNCHANGED <<ready, current_turn, game_over,
                                            play_again_state, eof>>
                        ELSE /\ sent' = AttackLines(p, g, x, y) \o GameOverLines(p)
                             /\ play_again_state' = PAWaiting(None, None, 0)
                             /\ pc' = AfterHandler(p)
                             /\ UNCHANGED <<ready, last_stand_used, current_turn,
                                            game_over, trigger_count>>
                             /\ MainFrame
                   ELSE /\ current_turn' = NextTurn(p)
                        /\ sent' = AttackLines(p, g, x, y)
                                   \o SwitchTurnLines(NextTurn(p))
                        /\ pc' = AfterHandler(p)
                        /\ UNCHANGED <<ready, last_stand_used, game_over,
                                       play_again_state, trigger_count>>
                        /\ MainFrame
       ELSE Ignore(p)

Attack(p, x, y) ==
    /\ UNCHANGED bench
    /\ AttackArm(p, x, y)

\* ------------------------------------------------- restore_random_ship
\* Variant: the probe tries the horizontal orientation only.
RestoreAt_horizontal(g, x, y) ==
    IF can_place_ship(g, x, y, DESTROYER_LEN, TRUE)
    THEN Some(place_ship(g, x, y, DESTROYER_LEN, TRUE))
    ELSE None

\* What the probe of one sampled position does: horizontal first, then
\* vertical; None when neither fits.
RestoreAt(g, x, y) ==
    IF can_place_ship(g, x, y, DESTROYER_LEN, TRUE)
    THEN Some(place_ship(g, x, y, DESTROYER_LEN, TRUE))
    ELSE IF can_place_ship(g, x, y, DESTROYER_LEN, FALSE)
         THEN Some(place_ship(g, x, y, DESTROYER_LEN, FALSE))
         ELSE None

empty_positions(g) == {pos \in Coord \X Coord : g[pos[2]][pos[1]] = Empty}

\* The grids restore_random_ship can leave when it returns true: positions
\* are sampled without repetition until one probe succeeds, so any Empty
\* position whose probe succeeds can be the one.  It returns false exactly
\* when this set is empty, and then the grid is untouched.
restore_random_ship(g) ==
    { Unwrap(RestoreAt(g, pos[1], pos[2])) :
        pos \in {q \in empty_positions(g) : IsSome(RestoreAt(g, q[1], q[2]))} }

\* ------------------------------------------------ the nested last-stand loop
\* `while timeout_start.elapsed() < Duration::from_secs(10)`
LastStandWindowOpen == ls_elapsed < LAST_STAND_SECS

\* Variant: any reply, whatever its success field, counts as a success.
LastStandRestores_any(result) == IsSome(result)

\* The code after the nested loop, given last_stand_result.
\* `if let Some(success) = last_stand_result && success && restore_random_ship(grid)`
\* continues the outer loop; everything else falls to the game-over lines.
LastStandRestores(result) == IsSome(result) /\ Unwrap(result)

FinishLastStand(result) ==
    LET t == ls_target
        a == Other(ls_target)
    IN  /\ ls_target' = 0
        /\ ls_elapsed' = 0
        /\ UNCHANGED cards_used
        /\ IF /\ LastStandRestores(result)
              /\ IsSome(grid[t])
              /\ restore_random_ship(Unwrap(grid[t])) # {}
           THEN /\ \E g2 \in restore_random_ship(Unwrap(grid[t])) :
                      grid' = [grid EXCEPT ![t] = Some(g2)]
                /\ sent' = << >>
                /\ pc' = LoopTop(game_over)
                /\ UNCHANGED <<ready, last_stand_used, current_turn, game_over,
                               play_again_state, trigger_count>>
           ELSE /\ sent' = GameOverLines(a)
                /\ play_again_state' = PAWaiting(None, None, 0)
                /\ pc' = AfterHandler(a)
                /\ UNCHANGED <<grid, ready, last_stand_used, current_turn,
                               game_over, trigger_count>>

\* A reply that would also take the boolean of a PlayAgainResponse.
IsLastStandReply_anybool(m) == m[1] \in {"LastStandResult", "PlayAgainResponse"}

\* `if let Ok(Message::LastStandResult { success }) = serde_json::from_str(&line)`
IsLastStandReply(m) == m[1] = "LastStandResult"

\* A line read from the target inside the window, on the session state alone.
LastStandReadArm(m) ==
    /\ pc = "last_stand"
    /\ LastStandWindowOpen
    /\ ~eof[ls_target]
    /\ event' = IF IsLastStandReply(m)
                THEN <<"msg", ls_target, m>>
                ELSE <<"msg", ls_target, Variant(m)>>
    /\ IF IsLastStandReply(m)
       THEN FinishLastStand(Some(m[2])) /\ UNCHANGED eof
       ELSE \* any other line is dropped and the loop goes on
            /\ sent' = << >>
            /\ UNCHANGED <<engine, pc, ls_target, ls_elapsed, eof, cards_used,
                           trigger_count>>

LastStandRead(m) ==
    /\ UNCHANGED bench
    /\ LastStandReadArm(m)

\* Ok(0) or a read error: `break` with no result.
LastStandDisconnect ==
    /\ UNCHANGED bench
    /\ pc = "last_stand"
    /\ LastStandWindowOpen
    /\ event' = <<"eof", ls_target>>
    /\ eof' = [eof EXCEPT ![ls_target] = TRUE]
    /\ FinishLastStand(None)

\* The loop condition fails: the 10 s have passed with no result.
LastStandDeadline ==
    /\ UNCHANGED bench
    /\ pc = "last_stand"
    /\ ~LastStandWindowOpen
    /\ event' = <<"deadline">>
    /\ FinishLastStand(None)
    /\ UNCHANGED eof


\* ---------------------------------------------------- PlayAgainResponse
\* Variant: one `true` is enough to agree.
RecordResponse_either(st, p, w) ==
    LET r1 == IF p = 0 THEN Some(w) ELSE st.p1_response
        r2 == IF p = 1 THEN Some(w) ELSE st.p2_response
    IN  IF IsSome(r1) /\ IsSome(r2)
        THEN IF Unwrap(r1) \/ Unwrap(r2) THEN PABothAgreed ELSE PAOneDeclined
        ELSE PAWaiting(r1, r2, st.elapsed)

\* The state after recording peer p's answer w in WaitingForResponses.
RecordResponse(st, p, w) ==
    LET r1 == IF p = 0 THEN Some(w) ELSE st.p1_response
        r2 == IF p = 1 THEN Some(w) ELSE st.p2_response
    IN  IF IsSome(r1) /\ IsSome(r2)
        THEN IF Unwrap(r1) /\ Unwrap(r2) THEN PABothAgreed ELSE PAOneDeclined
        ELSE PAWaiting(r1, r2, st.elapsed)

\* Variant: the answer is recorded whatever the negotiation state.
NegotiationOpen_always(st) == TRUE

\* `if let PlayAgainState::WaitingForResponses { .. } = &mut play_again_state`
NegotiationOpen(st) == st.tag = "WaitingForResponses"

PlayAgainResponse(p, w) ==
    /\ UNCHANGED bench
    /\ CanRead(p)
    /\ event' = IF NegotiationOpen(play_again_state)
                THEN <<"msg", p, PlayAgainResponseMsg(w)>>
                ELSE <<"msg", p, Variant(PlayAgainResponseMsg(w))>>
    /\ play_again_state' =
         IF NegotiationOpen(play_again_state)
         THEN RecordResponse(play_again_state, p, w)
         ELSE play_again_state
    /\ sent' = << >>
    /\ pc' = AfterHandler(p)
    /\ UNCHANGED <<grid, ready, last_stand_used, current_turn, game_over,
                   trigger_count, cards_used>>
    /\ MainFrame

\* -------------------------------------------------------------- CardUsed
\* Cells in the order of the nested `for y / for x` loops.
RowMajor == [k \in 1 .. (GRID_SIZE * GRID_SIZE) |->
                <<(k - 1) % GRID_SIZE, (k - 1) \div GRID_SIZE>>]

CellsWhere(g, states) ==
    SelectSeq(RowMajor, LAMBDA c : g[c[2]][c[1]] \in states)

Min(a, b) == IF a < b THEN a ELSE b

\* Radar: the first reveal_count = min(2, len) Ship positions.
RadarLines(p, g) ==
    LET revealed_positions == CellsWhere(g, {Ship})
        reveal_count == Min(Len(revealed_positions), 2)
    IN  [i \in 1 .. reveal_count |->
            To(p, CardEffectMsg("radar_reveal", revealed_positions[i]))]

\* A strike of a single draw.
MissileDraws_one(g) ==
    LET targets == {c \in Coord \X Coord : g[c[2]][c[1]] \in {Empty, Ship}}
    IN  IF targets = {} THEN { << >> } ELSE { <<c>> : c \in targets }

\* MissileStrike: the sequences of cells the two draws can remove from
\* `targets` (each draw takes a random remaining element, if any).
MissileDraws(g) ==
    LET targets == {c \in Coord \X Coord : g[c[2]][c[1]] \in {Empty, Ship}}
    IN  IF targets = {} THEN { << >> }
        ELSE IF Cardinality(targets) = 1 THEN { <<c>> : c \in targets }
        ELSE { <<c, d>> : c \in targets, d \in targets } \ { <<c, c>> : c \in targets }

StrikeCell(g, c) ==
    SetCell(g, c[1], c[2], IF g[c[2]][c[1]] = Ship THEN Hit ELSE Miss)

RECURSIVE StrikeAll(_, _)
StrikeAll(g, draws) ==
    IF draws = << >> THEN g
    ELSE StrikeAll(StrikeCell(g, Head(draws)), Tail(draws))

MissileLines(p, draws, g2) ==
    [i \in 1 .. Len(draws) |-> To(p, CardEffectMsg("missile_strike", draws[i]))]
    \o << To(p, GridUpdateMsg(g2)) >>

\* The CardUsed arm of peer p's match, on the session state alone.
CardUsedArm(p, card) ==
    /\ CanRead(p)
    /\ event' = <<"msg", p, CardUsedMsg(card)>>
    /\ pc' = AfterHandler(p)
    /\ UNCHANGED <<ready, last_stand_used, current_turn, game_over,
                   play_again_state, trigger_count>>
    /\ MainFrame
    /\ CASE card = Shield ->
              /\ sent' = << To(p, CardEffectMsg("shield_activated", << >>)) >>
              /\ UNCHANGED grid
         [] card = Radar ->
              /\ sent' = IF IsSome(grid[Other(p)])
                         THEN RadarLines(p, Unwrap(grid[Other(p)]))
                         ELSE << >>
              /\ UNCHANGED grid
         [] card = Repair ->
              /\ sent' = << To(p, CardEffectMsg("repair", << >>)) >>
              /\ UNCHANGED grid
         [] card = MissileStrike ->
              IF IsSome(grid[Other(p)])
              THEN \E draws \in MissileDraws(Unwrap(grid[Other(p)])) :
                      LET g2 == StrikeAll(Unwrap(grid[Other(p)]), draws)
                      IN  /\ grid' = [grid EXCEPT ![Other(p)] = Some(g2)]
                          /\ sent' = MissileLines(p, draws, g2)
              ELSE /\ sent' = << >>
                   /\ UNCHANGED grid

CardUsed(p, card) ==
    /\ UNCHANGED bench
    /\ cards_used < MaxCards
    /\ cards_used' = cards_used + 1
    /\ CardUsedArm(p, card)

\* ------------------------------------------------------------------ Quit
Quit(p) ==
    /\ UNCHANGED bench
    /\ CanRead(p)
    /\ event' = <<"msg", p, QuitMsg>>
    /\ sent' = << To(Other(p), OpponentQuitMsg) >>
    /\ game_over' = TRUE
    /\ pc' = AfterHandler(p)
    /\ UNCHANGED <<grid, ready, last_stand_used, current_turn,
                   play_again_state, trigger_count, cards_used>>
    /\ MainFrame

\* ------------------------------------------------ other lines and reads
\* A variant the match does not name, or a line that fails to parse.
OtherMessage(p, m) ==
    /\ UNCHANGED bench
    /\ CanRead(p)
    /\ event' = <<"msg", p, Variant(m)>>
    /\ Ignore(p)

\* Err(WouldBlock): no line this tick.
WouldBlock(p) ==
    /\ UNCHANGED bench
    /\ CanRead(p)
    /\ event' = <<"would_block", p>>
    /\ Ignore(p)

\* Ok(0) or another read error in the main loop: `break`.
Disconnect(p) ==
    /\ UNCHANGED bench
    /\ pc = ReaderPc(p)
    /\ event' = <<"eof", p>>
    /\ pc' = "done"
    /\ sent' = << >>
    /\ UNCHANGED <<engine, ls_target, ls_elapsed, eof, cards_used, trigger_count>>

\* ------------------------------------- "Handle play again state transitions"
\* Variant: only player 1 is told.
NewGameLines_p1only == << To(0, NewGameStartMsg) >>

\* The two writes that end the BothAgreed arm.
NewGameLines == << To(0, NewGameStartMsg), To(1, NewGameStartMsg) >>

PlayAgainExpired(st) == st.elapsed > PLAY_AGAIN_SECS

PlayAgainTransitions ==
    /\ UNCHANGED bench
    /\ pc = "play_again"
    /\ event' = <<"transitions">>
    /\ MainFrame
    /\ CASE play_again_state.tag = "WaitingForResponses" ->
              /\ play_again_state' =
                   IF PlayAgainExpired(play_again_state)
                   THEN PATimeout ELSE play_again_state
              /\ sent' = << >>
              /\ UNCHANGED <<grid, ready, last_stand_used, current_turn,
                             game_over, trigger_count, cards_used>>
         [] play_again_state.tag = "BothAgreed" ->
              /\ grid' = [p \in Peers |-> None]
              /\ ready' = [p \in Peers |-> FALSE]
              /\ current_turn' = 0
              /\ play_again_state' = PANone
              /\ last_stand_used' = [p \in Peers |-> FALSE]
              /\ trigger_count' = [p \in Peers |-> 0]
              /\ cards_used' = 0
              /\ sent' = NewGameLines
              /\ UNCHANGED game_over
         [] play_again_state.tag \in {"OneDeclined", "Timeout"} ->
              /\ game_over' = TRUE
              /\ sent' = << >>
              /\ UNCHANGED <<grid, ready, last_stand_used, current_turn,
                             play_again_state, trigger_count, cards_used>>
         [] play_again_state.tag = "None" ->
              /\ sent' = << >>
              /\ UNCHANGED <<engine, trigger_count, cards_used>>
    \* tokio::time::sleep, then the loop condition
    /\ pc' = LoopTop(game_over')

\* ----------------------------------------------------------------- clock
\* Time is read only through elapsed() of the two timers.  A reading stops
\* growing once it has passed its threshold: the code compares it with the
\* threshold and nothing else.
Advance(el, limit) == IF el > limit THEN el ELSE el + TICK_SECS

Tick ==
    /\ UNCHANGED bench
    /\ pc # "done"
    /\ \/ pc = "last_stand" /\ LastStandWindowOpen
       \/ /\ play_again_state.tag = "WaitingForResponses"
          /\ ~PlayAgainExpired(play_again_state)
    /\ ls_elapsed' = IF pc = "last_stand" /\ LastStandWindowOpen
                     THEN ls_elapsed + TICK_SECS ELSE ls_elapsed
    /\ play_again_state' =
         IF play_again_state.tag = "WaitingForResponses"
         THEN [play_again_state EXCEPT !.elapsed = Advance(@, PLAY_AGAIN_SECS)]
         ELSE play_again_state
    /\ event' = <<"tick">>
    /\ sent' = << >>
    /\ UNCHANGED <<grid, ready, last_stand_used, current_turn, game_over, pc,
                   ls_target, eof, cards_used, trigger_count>>

\* ------------------------------------------------------------------ Spec
Next ==
    \/ \E p \in Peers : \E g \in Fleets : PlaceShips(p, g)
    \/ \E p \in Peers : \E x \in Coord : \E y \in Coord : Attack(p, x, y)
    \/ \E p \in Peers : \E w \in BOOLEAN : PlayAgainResponse(p, w)
    \/ \E p \in Peers : \E card \in PowerUp : CardUsed(p, card)
    \/ \E p \in Peers : Quit(p)
    \/ \E p \in Peers : \E m \in IgnoredMsgs : OtherMessage(p, m)
    \/ \E p \in Peers : WouldBlock(p)
    \/ \E p \in Peers : Disconnect(p)
    \/ \E m \in InMsgs : LastStandRead(m)
    \/ LastStandDisconnect
    \/ LastStandDeadline
    \/ PlayAgainTransitions
    \/ Tick

Spec == Init /\ [][Next]_vars


\* =================================================================
\* Properties of the two-player engine
\* =================================================================
\* Readings of the history variables.
IsMsgEvent(e, variant) == Len(e) = 3 /\ e[1] = "msg" /\ e[3][1] = variant
\* An Attack whose match arm ran: the event keeps its coordinates.
IsAcceptedAttack(e) == IsMsgEvent(e, "Attack") /\ Len(e[3]) = 3
Lines(s, p, variant) == {i \in 1 .. Len(s) : s[i][1] = p /\ s[i][2][1] = variant}
Wrote(s, variant) == \E i \in 1 .. Len(s) : s[i][2][1] = variant
NoShipCell(g) == \A y \in Coord : \A x \in Coord : g[y][x] # Ship

\* C1: every accepted Attack that neither sends GameOver nor opens a
\* last-stand challenge passes current_turn from the attacker to the other
\* peer, and current_turn changes in no other step of a game (the only other
\* change is the play-again reset, which starts the next game).
C1_TurnAlternation ==
    [][ /\ ( /\ IsAcceptedAttack(event')
             /\ ~Wrote(sent', "GameOver")
             /\ ~Wrote(sent', "LastStandTrigger") )
           => (current_turn = event'[2] /\ current_turn' = 1 - event'[2])
        /\ (current_turn' # current_turn)
           => \/ /\ IsAcceptedAttack(event')
                 /\ ~Wrote(sent', "GameOver")
                 /\ ~Wrote(sent', "LastStandTrigger")
              \/ Wrote(sent', "NewGameStart")
      ]_vars

\* C1 witness: peer 1's accepted Attack has just handed the turn back to
\* peer 0.
C1_Witness ==
    /\ IsAcceptedAttack(event)
    /\ event[2] = 1
    /\ current_turn = 0
    /\ ~Wrote(sent, "GameOver")
    /\ ~Wrote(sent, "LastStandTrigger")

\* C2: an Attack from the peer that is not on turn, or while some peer is
\* not ready, changes no grid, turn, flag or negotiation state and writes no
\* line.
C2_AttackIgnored ==
    [][ ( /\ IsMsgEvent(event', "Attack")
          /\ (current_turn # event'[2] \/ ~ready[0] \/ ~ready[1]) )
        => (UNCHANGED engine /\ sent' = << >>)
      ]_vars

\* C2 witness: both peers are ready, it is peer 0's turn, and an Attack line
\* of peer 1 has just been dropped.
C2_Witness ==
    /\ IsMsgEvent(event, "Attack")
    /\ event[2] = 1
    /\ current_turn = 0
    /\ ready[0] /\ ready[1]
    /\ sent = << >>
    /\ pc = "play_again"

\* C3: a peer's first PlaceShips of a game is answered by WaitingForOpponent
\* alone when the other peer is not ready; when the other peer is ready,
\* each peer is written GameStart once, then peer 0 YourTurn and peer 1
\* OpponentTurn, and current_turn is 0.
C3_PlacementOrder ==
    [][ (IsMsgEvent(event', "PlaceShips") /\ Len(event'[3]) = 2 /\ ~ready[event'[2]])
        => IF ready[1 - event'[2]]
           THEN /\ sent' = << <<0, <<"GameStart">> >>, <<1, <<"GameStart">> >>,
                              <<0, <<"YourTurn">> >>, <<1, <<"OpponentTurn">> >> >>
                /\ current_turn' = 0
           ELSE sent' = << <<event'[2], <<"WaitingForOpponent">> >> >>
      ]_vars

\* C3 witness: peer 1 placed first, and peer 0's placement has just started
\* the game.
C3_Witness ==
    /\ IsMsgEvent(event, "PlaceShips")
    /\ event[2] = 0
    /\ Wrote(sent, "GameStart")
    /\ ready[0] /\ ready[1]

\* C4: a PlaceShips line from a peer that is already ready is ignored: the
\* peer's recorded grid is not replaced, and no GameStart, YourTurn,
\* OpponentTurn or WaitingForOpponent line is written.
C4_SecondPlacementIgnored ==
    [][ (IsMsgEvent(event', "PlaceShips") /\ ready[event'[2]])
        => /\ grid'[event'[2]] = grid[event'[2]]
           /\ ~Wrote(sent', "GameStart")
           /\ ~Wrote(sent', "YourTurn")
           /\ ~Wrote(sent', "OpponentTurn")
           /\ ~Wrote(sent', "WaitingForOpponent")
      ]_vars

\* C5: an accepted Attack{x,y} writes the attacker exactly one AttackResult,
\* carrying x, y and hit = (the target's cell was Ship), writes the target
\* exactly one Attack{x,y}, and changes the target's grid at (x,y) only,
\* to Hit, and only when hit.
C5_AttackResolution ==
    [][ IsAcceptedAttack(event')
        => LET a == event'[2]
               t == 1 - event'[2]
               x == event'[3][2]
               y == event'[3][3]
               before == grid[t][1]
               after == grid'[t][1]
               hit == before[y][x] = Ship
               results == Lines(sent', a, "AttackResult")
               mirrors == Lines(sent', t, "Attack")
           IN  /\ Cardinality(results) = 1
               /\ \A i \in results :
                     /\ sent'[i][2][2] = x
                     /\ sent'[i][2][3] = y
                     /\ sent'[i][2][4] = hit
               /\ Cardinality(mirrors) = 1
               /\ \A i \in mirrors : sent'[i][2] = <<"Attack", x, y>>
               /\ Lines(sent', t, "AttackResult") = {}
               /\ Lines(sent', a, "Attack") = {}
               /\ \A yy \in Coord : \A xx \in Coord :
                     (xx # x \/ yy # y) => after[yy][xx] = before[yy][xx]
               /\ hit => after[y][x] = Hit
               /\ ~hit => after[y][x] = before[y][x]
               /\ grid'[a] = grid[a]
      ]_vars

\* C5 witness: an accepted Attack has just hit the last unhit cell of a
\* ship, and the attacker was written hit = true, sunk = true.
C5_Witness ==
    /\ IsAcceptedAttack(event)
    /\ \E i \in Lines(sent, event[2], "AttackResult") :
          sent[i][2][4] = TRUE /\ sent[i][2][5] = TRUE


\* C7: between session creation (or the latest play-again reset) and the
\* next reset, each peer is written LastStandTrigger at most once.
C7_TriggerAtMostOnce == \A p \in Peers : trigger_count[p] <= 1

\* C7 witness: a peer that was already written LastStandTrigger in this life
\* has had its fleet sunk again by an accepted Attack, and was written
\* GameOver instead of a second trigger.
C7_Witness ==
    /\ IsAcceptedAttack(event)
    /\ trigger_count[1 - event[2]] = 1
    /\ NoShipCell(grid[1 - event[2]][1])
    /\ Lines(sent, 1 - event[2], "GameOver") # {}

\* A step of the nested loop that ends the challenge: a LastStandResult of
\* the target, the deadline, or the end of the target's stream.
ResolvesLastStand(e) ==
    \/ IsMsgEvent(e, "LastStandResult") /\ e[2] = ls_target
    \/ e = <<"deadline">>
    \/ e = <<"eof", ls_target>>

\* C8: an accepted Attack that leaves the target's grid with no Ship cell
\* while the target's last-stand flag is false sets the flag and writes
\* LastStandTrigger to the target; from then until the challenge is resolved
\* no GameOver is written to either peer.
C8_LastStandBeforeGameOver ==
    [][ /\ ( /\ IsAcceptedAttack(event')
             /\ NoShipCell(grid'[1 - event'[2]][1])
             /\ ~last_stand_used[1 - event'[2]] )
           => /\ last_stand_used'[1 - event'[2]]
              /\ Cardinality(Lines(sent', 1 - event'[2], "LastStandTrigger")) = 1
              /\ ~Wrote(sent', "GameOver")
              /\ pc' = "last_stand"
              /\ ls_target' = 1 - event'[2]
        /\ (pc = "last_stand" /\ ~ResolvesLastStand(event'))
           => (~Wrote(sent', "GameOver") /\ pc' = "last_stand")
      ]_vars

\* C8 witness: the challenge is pending: the trigger was written and the
\* engine waits for the target's reply.
C8_Witness ==
    /\ pc = "last_stand"
    /\ Lines(sent, ls_target, "LastStandTrigger") # {}
    /\ last_stand_used[ls_target]
    /\ NoShipCell(grid[ls_target][1])

\* What both ways of failing the challenge must do: GameOver{won:true} to
\* the attacker, GameOver{won:false} to the loser, PlayAgainRequest to both,
\* the negotiation opened with no response, and nothing else changed.
FailedLastStandOutcome ==
    LET loser == ls_target
        attacker == 1 - ls_target
    IN  /\ sent' = << <<0, <<"GameOver", attacker = 0>> >>,
                      <<1, <<"GameOver", attacker = 1>> >>,
                      <<0, <<"PlayAgainRequest">> >>,
                      <<1, <<"PlayAgainRequest">> >> >>
        /\ play_again_state' = [tag |-> "WaitingForResponses",
                                p1_response |-> << >>, p2_response |-> << >>,
                                elapsed |-> 0]
        /\ pc' = IF attacker = 0 THEN "read_p2" ELSE "play_again"
        /\ UNCHANGED <<grid, ready, last_stand_used, current_turn, game_over,
                       eof, cards_used, trigger_count>>

\* C9: a last-stand wait ended by the deadline and one ended by
\* LastStandResult{success:false} leave the same session state and write
\* the same lines.
C9_DeadlineAsFailure ==
    [][ ( /\ pc = "last_stand"
          /\ \/ event' = <<"deadline">>
             \/ event' = <<"msg", ls_target, <<"LastStandResult", FALSE>> >> )
        => FailedLastStandOutcome
      ]_vars

\* C9 witness: the deadline has just ended a wait with the game-over lines.
C9_Witness ==
    /\ event = <<"deadline">>
    /\ Wrote(sent, "GameOver")
    /\ play_again_state.tag = "WaitingForResponses"

\* The cells of g2 that differ from g.
Changed(g, g2) == {c \in Coord \X Coord : g2[c[2]][c[1]] # g[c[2]][c[1]]}
Adjacent(c, d) ==
    \/ c[2] = d[2] /\ (c[1] = d[1] + 1 \/ d[1] = c[1] + 1)
    \/ c[1] = d[1] /\ (c[2] = d[2] + 1 \/ d[2] = c[2] + 1)
\* g2 is g with a length-2 ship put on two adjacent Empty cells.
DestroyerRestored(g, g2) ==
    /\ Cardinality(Changed(g, g2)) = 2
    /\ \A c \in Changed(g, g2) : g[c[2]][c[1]] = Empty /\ g2[c[2]][c[1]] = Ship
    /\ \A c \in Changed(g, g2) : \A d \in Changed(g, g2) : c = d \/ Adjacent(c, d)
HasEmptyCell(g) == \E c \in Coord \X Coord : g[c[2]][c[1]] = Empty
HasEmptyPair(g) ==
    \E c \in Coord \X Coord : \E d \in Coord \X Coord :
        Adjacent(c, d) /\ g[c[2]][c[1]] = Empty /\ g[d[2]][d[1]] = Empty

\* C10 as stated: LastStandResult{success:true} inside the window, with at
\* least one Empty cell on the loser's grid, restores a length-2 ship and
\* no GameOver is written.
C10_RestoreWithAnyEmptyCell ==
    [][ ( /\ pc = "last_stand"
          /\ event' = <<"msg", ls_target, <<"LastStandResult", TRUE>> >>
          /\ HasEmptyCell(grid[ls_target][1]) )
        => /\ DestroyerRestored(grid[ls_target][1], grid'[ls_target][1])
           /\ ~Wrote(sent', "GameOver")
      ]_vars

\* C10 amended: LastStandResult{success:true} inside the window, with two
\* adjacent Empty cells on the loser's grid, restores a length-2 ship on
\* that grid and no GameOver is written.
C10_RestoreWithEmptyPair ==
    [][ ( /\ pc = "last_stand"
          /\ event' = <<"msg", ls_target, <<"LastStandResult", TRUE>> >>
          /\ HasEmptyPair(grid[ls_target][1]) )
        => /\ DestroyerRestored(grid[ls_target][1], grid'[ls_target][1])
           /\ grid'[1 - ls_target] = grid[1 - ls_target]
           /\ ~Wrote(sent', "GameOver")
           /\ play_again_state' = play_again_state
      ]_vars

\* C10 witness: a successful reply has just put a ship back on a grid that
\* had none.
C10_Witness ==
    /\ event = <<"msg", 1, <<"LastStandResult", TRUE>> >>
    /\ pc = "read_p1"
    /\ ~NoShipCell(grid[1][1])
    /\ last_stand_used[1]
    /\ sent = << >>

\* C11: after a successful last stand (a ship was restored) the engine
\* proceeds as after an accepted Attack that did not sink the last ship:
\* current_turn passes to the peer that was attacked, which is written
\* YourTurn, and the attacker is written OpponentTurn.
C11_TurnPassesAfterLastStand ==
    [][ ( /\ pc = "last_stand"
          /\ event' = <<"msg", ls_target, <<"LastStandResult", TRUE>> >>
          /\ ~NoShipCell(grid'[ls_target][1]) )
        => /\ current_turn' = ls_target
           /\ Lines(sent', ls_target, "YourTurn") # {}
           /\ Lines(sent', 1 - ls_target, "OpponentTurn") # {}
      ]_vars

\* C12: a Quit read from either peer in any phase, the wait for a
\* LastStandResult included, writes OpponentQuit to the other peer and ends
\* the session (game_over is set) in the step that reads it.
C12_QuitEndsSession ==
    [][ IsMsgEvent(event', "Quit")
        => /\ Lines(sent', 1 - event'[2], "OpponentQuit") # {}
           /\ game_over'
      ]_vars

\* The answer of peer p recorded in negotiation state st, after the step
\* that consumed e: the answer e carries when e is p's PlayAgainResponse
\* read while waiting, the stored one otherwise.
RecordedAfter(st, e, p) ==
    IF IsMsgEvent(e, "PlayAgainResponse") /\ Len(e[3]) = 2 /\ e[2] = p
    THEN <<e[3][2]>>
    ELSE IF p = 0 THEN st.p1_response ELSE st.p2_response

\* C13: the negotiation becomes BothAgreed only in a step taken while
\* waiting for responses and after which both peers' recorded responses are
\* true; never with a missing or a false response.
C13_BothAgreedNeedsBothTrue ==
    [][ (play_again_state'.tag = "BothAgreed" /\ play_again_state.tag # "BothAgreed")
        => /\ play_again_state.tag = "WaitingForResponses"
           /\ \A p \in Peers : RecordedAfter(play_again_state, event', p) = <<TRUE>>
      ]_vars

\* C13 witness: the second `true` has just been recorded.
C13_Witness ==
    /\ play_again_state.tag = "BothAgreed"
    /\ event = <<"msg", 1, <<"PlayAgainResponse", TRUE>> >>

\* A negotiation state that holds a recorded `false`.
HoldsFalse(st) ==
    /\ st.tag = "WaitingForResponses"
    /\ (st.p1_response = <<FALSE>> \/ st.p2_response = <<FALSE>>)

\* C14: a PlayAgainResponse{wants_to_play:false} read during the
\* negotiation resolves it to OneDeclined at once, whether or not the other
\* peer has answered, and a negotiation holding a false response never
\* resolves to Timeout or BothAgreed.
C14_FalseResolvesAtOnce ==
    [][ /\ ( /\ play_again_state.tag = "WaitingForResponses"
             /\ IsMsgEvent(event', "PlayAgainResponse")
             /\ Len(event'[3]) = 2
             /\ event'[3][2] = FALSE )
           => play_again_state'.tag = "OneDeclined"
        /\ HoldsFalse(play_again_state)
           => play_again_state'.tag \notin {"Timeout", "BothAgreed"}
      ]_vars

\* C15: a negotiation whose 30 s have passed with fewer than two responses
\* becomes Timeout at the state-transition step, and once Timeout is reached
\* it stays: no line read afterwards returns the session to waiting or
\* playing, and the next state-transition step ends the session.
C15_TimeoutIsFinal ==
    [][ /\ ( /\ pc = "play_again"
             /\ play_again_state.tag = "WaitingForResponses"
             /\ play_again_state.elapsed > 30 )
           => play_again_state'.tag = "Timeout"
        /\ play_again_state.tag = "Timeout"
           => /\ play_again_state'.tag = "Timeout"
              /\ pc = "play_again" => game_over'
      ]_vars

\* The response of peer p stored in negotiation state st.
Response(st, p) == IF p = 0 THEN st.p1_response ELSE st.p2_response

\* C16: during one negotiation, once a peer's response is recorded, a later
\* PlayAgainResponse from the same peer does not change the recorded value.
C16_OneResponsePerPeer ==
    [][ \A p \in Peers :
          ( /\ play_again_state.tag = "WaitingForResponses"
            /\ Response(play_again_state, p) # << >>
            /\ IsMsgEvent(event', "PlayAgainResponse")
            /\ event'[2] = p
            /\ play_again_state'.tag = "WaitingForResponses" )
          => Response(play_again_state', p) = Response(play_again_state, p)
      ]_vars

\* C17: while the negotiation is waiting, its start time is never moved
\* later (the reading of elapsed() never drops) and a response already
\* recorded is never erased, whatever line is read meanwhile.
C17_WindowNeverRestarts ==
    [][ ( /\ play_again_state.tag = "WaitingForResponses"
          /\ play_again_state'.tag = "WaitingForResponses" )
        => /\ play_again_state'.elapsed >= play_again_state.elapsed
           /\ \A p \in Peers :
                Response(play_again_state, p) # << >>
                => Response(play_again_state', p) # << >>
      ]_vars

C19_ResponseIgnoredWhenClosed ==
    [][ ( /\ play_again_state.tag = "None"
          /\ IsMsgEvent(event', "PlayAgainResponse") )
        => /\ UNCHANGED <<grid, ready, last_stand_used, current_turn,
                          game_over, play_again_state>>
           /\ sent' = << >>
      ]_vars

\* C19 witness: a PlayAgainResponse has just been read in the middle of a
\* game, with no negotiation open.
C19_Witness ==
    /\ IsMsgEvent(event, "PlayAgainResponse")
    /\ play_again_state.tag = "None"
    /\ ready[0] /\ ready[1]
    /\ \E y \in Coord : \E x \in Coord : grid[1][1][y][x] = Hit

\* =================================================================
\* The sunk flag on legally placed fleets
\* =================================================================
\* SHIPS of types.rs: the lengths of the five ships.
SHIPS == <<5, 4, 3, 3, 2>>
ShipLengths == {SHIPS[i] : i \in 1 .. Len(SHIPS)}

\* Every way to put one more ship on g as handle_key_event does: the
\* placement is made only where can_place_ship allows it.
Placements(g) ==
    {pl \in Coord \X Coord \X ShipLengths \X BOOLEAN :
        can_place_ship(g, pl[1], pl[2], pl[3], pl[4])}

RECURSIVE PlaceAll(_, _)
PlaceAll(g, pls) ==
    IF pls = << >> THEN g
    ELSE PlaceAll(place_ship(g, Head(pls)[1], Head(pls)[2], Head(pls)[3],
                             Head(pls)[4]),
                  Tail(pls))

\* The fleets of 1 .. n ships, each ship legally placed after the others.
RECURSIVE LegalFleets(_)
LegalFleets(n) ==
    IF n = 0 THEN { << >> }
    ELSE LET smaller == LegalFleets(n - 1)
         IN  smaller \cup
             UNION { {Append(f, pl) : pl \in Placements(PlaceAll(EmptyGrid, f))} :
                     f \in smaller }

ShipCells(pl) ==
    {c \in Coord \X Coord :
        IF pl[4]
        THEN c[2] = pl[2] /\ c[1] >= pl[1] /\ c[1] < pl[1] + pl[3]
        ELSE c[1] = pl[1] /\ c[2] >= pl[2] /\ c[2] < pl[2] + pl[3]}

SunkInit ==
    /\ EngineInit
    /\ HandsInit
    /\ ClientInit
    /\ ProbeInit
    /\ SideInit
    /\ ships \in (LegalFleets(MaxShips) \ { << >> })
    /\ board = PlaceAll(EmptyGrid, ships)
    /\ shot = << >>

\* A shot resolved as the Attack arm resolves it (server.rs:233-241).
SunkShoot(x, y) ==
    LET hit == board[y][x] = Ship
        after == AttackedGrid(board, x, y)
    IN  /\ board' = after
        /\ shot' = [x |-> x, y |-> y, hit |-> hit,
                    sunk |-> IF hit THEN is_ship_sunk_at(after, x, y) ELSE FALSE]
        /\ UNCHANGED ships
        /\ UNCHANGED hands
        /\ UNCHANGED view
        /\ UNCHANGED probe
        /\ UNCHANGED side
        /\ UNCHANGED <<grid, ready, last_stand_used, current_turn, game_over,
                       play_again_state, pc, ls_target, ls_elapsed, eof,
                       cards_used, sent, event, trigger_count>>

SunkNext == \E x \in Coord : \E y \in Coord : SunkShoot(x, y)

SpecSunk == SunkInit /\ [][SunkNext]_vars

\* C6: on every legally placed fleet, ships that touch included, the sunk
\* flag computed for a shot that hit is true iff every cell of the ship
\* occupying the shot cell is Hit.
C6_SunkIffShipFullyHit ==
    (shot # << >> /\ shot.hit) =>
        \A i \in 1 .. Len(ships) :
            <<shot.x, shot.y>> \in ShipCells(ships[i]) =>
                (shot.sunk <=> \A c \in ShipCells(ships[i]) : board[c[2]][c[1]] = Hit)

\* =================================================================
\* The power-up hands
\* =================================================================
\* Hits a client scores in one game of the model.
MaxHits == 4
\* `max_hand_size: 5` of GameState::new
max_hand_size == 5
\* `if ai_hand.len() < 5` of ai_draw_card
AI_HAND_LIMIT == 5

\* The cards a draw can produce.  The code draws uniformly from the four
\* kinds; two of them are kept, Repair being the one the AI may hold back.
DrawnCards == {Shield, Repair}

CardDrawnMsg(card) == <<"CardDrawn", card>>

\* GameState::draw_card, the random card given as `card`.
draw_card(hand, card) ==
    IF Len(hand) >= max_hand_size THEN hand ELSE Append(hand, card)

\* ai_draw_card, the random card given as `card`.
ai_draw_card(hand, card) ==
    IF Len(hand) < AI_HAND_LIMIT THEN Append(hand, card) ELSE hand

\* Vec::remove at the 0-based index.
VecRemove(hand, index) ==
    SubSeq(hand, 1, index) \o SubSeq(hand, index + 2, Len(hand))

\* GameState::can_use_card and GameState::use_card
can_use_card(hand, card_index) == card_index < Len(hand)
use_card(hand, card_index) ==
    IF card_index < Len(hand) THEN VecRemove(hand, card_index) ELSE hand

\* The AI's hand after the "AI's turn" part of the Attack arm: the part is
\* skipped when the game just ended or no player grid is known, a Repair
\* with no target is kept, any other card picked at random is removed.
AiTurnHands(hand) ==
    {hand} \cup {VecRemove(hand, i) : i \in 0 .. (Len(hand) - 1)}

HandFrame ==
    UNCHANGED <<grid, ready, last_stand_used, current_turn, game_over,
                play_again_state, pc, ls_target, ls_elapsed, eof, cards_used,
                sent, event, trigger_count, board, ships, shot, own_grid,
                enemy_grid, shield_active, phase, outbox, tried_positions,
                returned, last_stand_input, opp_phase, ai_fired,
                ai_shield_active>>

\* server_ai.rs, the Attack arm when the shot hits: AttackResult is written,
\* the AI draws, CardDrawn is written to the player, then the AI plays.
AiAttackHit(ai_card, card) ==
    /\ inbox = << >>
    /\ hits < MaxHits
    /\ hits' = hits + 1
    /\ inbox' = << AttackResultMsg(0, 0, TRUE, FALSE), CardDrawnMsg(card) >>
    /\ ai_hand' \in AiTurnHands(ai_draw_card(ai_hand, ai_card))
    /\ UNCHANGED current_hand
    /\ HandFrame

\* server_ai.rs, the Attack arm when the shot misses.
AiAttackMiss ==
    /\ inbox = << >>
    /\ inbox' = << AttackResultMsg(0, 0, FALSE, FALSE) >>
    /\ ai_hand' \in AiTurnHands(ai_hand)
    /\ UNCHANGED <<current_hand, hits>>
    /\ HandFrame

\* server.rs, the Attack arm seen from the attacker's stream: AttackResult
\* and no CardDrawn.
ServerAttackResult(hit) ==
    /\ inbox = << >>
    /\ hit => hits < MaxHits
    /\ hits' = IF hit THEN hits + 1 ELSE hits
    /\ inbox' = << AttackResultMsg(0, 0, hit, FALSE) >>
    /\ UNCHANGED <<current_hand, ai_hand>>
    /\ HandFrame

\* client.rs, Message::AttackResult: a hit draws a card.
ClientAttackResult(card) ==
    /\ inbox # << >>
    /\ Head(inbox)[1] = "AttackResult"
    /\ current_hand' = IF Head(inbox)[4]
                       THEN draw_card(current_hand, card)
                       ELSE current_hand
    /\ inbox' = Tail(inbox)
    /\ UNCHANGED <<ai_hand, hits>>
    /\ HandFrame

\* client.rs, Message::CardDrawn: the card is pushed onto the hand.
ClientCardDrawn ==
    /\ inbox # << >>
    /\ Head(inbox)[1] = "CardDrawn"
    /\ current_hand' = Append(current_hand, Head(inbox)[2])
    /\ inbox' = Tail(inbox)
    /\ UNCHANGED <<ai_hand, hits>>
    /\ HandFrame

\* input.rs, keys '1'..'5' in YourTurn.
ClientUseCard(card_index) ==
    /\ can_use_card(current_hand, card_index)
    /\ current_hand' = use_card(current_hand, card_index)
    /\ UNCHANGED <<ai_hand, inbox, hits>>
    /\ HandFrame

HandNext ==
    \/ \E ai_card \in DrawnCards : \E card \in DrawnCards : AiAttackHit(ai_card, card)
    \/ AiAttackMiss
    \/ \E hit \in BOOLEAN : ServerAttackResult(hit)
    \/ \E card \in DrawnCards : ClientAttackResult(card)
    \/ ClientCardDrawn
    \/ \E card_index \in 0 .. 4 : ClientUseCard(card_index)

SpecHand == Init /\ [][HandNext]_vars

\* C20: a power-up hand, the client's or the AI's, never holds more than 5
\* cards, whatever sequence of AttackResult hits, CardDrawn notices and AI
\* draws occurs.
C20_HandAtMostFive == Len(current_hand) <= 5 /\ Len(ai_hand) <= 5

\* =================================================================
\* A two-player game seen from the client of player 1
\* =================================================================
\* The session engine runs its Attack and CardUsed arms on the lines of two
\* peers.  Peer 0 is a client (input.rs, client.rs) whose lines travel
\* through `outbox` and which handles the lines of `inbox`; peer 1 sends
\* whatever the engine accepts.  The game has started; the view ends where
\* the engine opens a last stand.

\* The lines of `lines` addressed to peer p, in order.
LinesFor(p, lines) ==
    LET mine == SelectSeq(lines, LAMBDA l : l[1] = p)
    IN  [i \in 1 .. Len(mine) |-> mine[i][2]]

\* GameState::repair_ship: the Hit cells of ships not fully sunk, in the
\* order of the `for y / for x` scan.
RepairTargets(g) ==
    SelectSeq(RowMajor, LAMBDA c : /\ g[c[2]][c[1]] = Hit
                                   /\ ~is_ship_sunk_at(g, c[1], c[2]))
\* The grid repair_ship leaves; it returns true iff RepairTargets is not empty.
repair_ship(g) ==
    IF RepairTargets(g) = << >> THEN g
    ELSE SetCell(g, RepairTargets(g)[1][1], RepairTargets(g)[1][2], Ship)

\* str::split_once(',') on a comma-joined string kept as its token list:
\* the text before the first comma and the rest.
split_once(tokens) ==
    IF Len(tokens) >= 2 THEN Some(<< <<Head(tokens)>>, Tail(tokens) >>) ELSE None

\* The "missile_strike" parse of client.rs: `data.split_once(',')` gives
\* (xy, result), then `xy.split_once(',')` must give (x, y).
ParseMissileStrike(data) ==
    IF ~IsSome(split_once(data)) THEN None
    ELSE LET xy == Unwrap(split_once(data))[1]
             result == Unwrap(split_once(data))[2]
         IN  IF ~IsSome(split_once(xy)) THEN None
             ELSE Some(<<Unwrap(split_once(xy))[1], Unwrap(split_once(xy))[2],
                         result>>)

\* The game has started: both grids recorded, both peers ready, YourTurn
\* handled by the client.
ViewInit ==
    /\ \E f \in Fleets :
          /\ grid = [p \in Peers |-> Some(f)]
          /\ own_grid = f
    /\ ready = [p \in Peers |-> TRUE]
    /\ last_stand_used = [p \in Peers |-> FALSE]
    /\ current_turn = 0
    /\ game_over = FALSE
    /\ play_again_state = PANone
    /\ pc = "read_p1"
    /\ ls_target = 0
    /\ ls_elapsed = 0
    /\ eof = [p \in Peers |-> FALSE]
    /\ cards_used = 0
    /\ sent = << >>
    /\ event = <<"init">>
    /\ trigger_count = [p \in Peers |-> 0]
    /\ HandsInit
    /\ ProbeInit
    /\ last_stand_input = << >>
    /\ opp_phase = "OpponentTurn"
    /\ ai_fired = [y \in Coord |-> [x \in Coord |-> FALSE]]
    /\ ai_shield_active = FALSE
    /\ enemy_grid = EmptyGrid
    /\ shield_active = FALSE
    /\ phase = "YourTurn"
    /\ outbox = << >>
    /\ board = EmptyGrid
    /\ ships = << >>
    /\ shot = << >>

EngineFrame ==
    UNCHANGED <<grid, ready, last_stand_used, current_turn, game_over,
                play_again_state, pc, ls_target, ls_elapsed, eof, cards_used,
                sent, event, trigger_count>>
BenchFrame ==
    UNCHANGED <<board, ships, shot, ai_hand, hits, tried_positions, returned,
                ai_fired, ai_shield_active>>

\* The first sequence of trigger_last_stand, cut to LAST_STAND_KEYS keys.
LAST_STAND_KEYS == 2
last_stand_sequence == [i \in 1 .. LAST_STAND_KEYS |-> IF i = 1 THEN "." ELSE "-"]

\* The phase the message handlers of client.rs leave after line m.
PhaseOn(ph, m) ==
    CASE m[1] = "YourTurn" -> "YourTurn"
      [] m[1] = "OpponentTurn" -> "OpponentTurn"
      [] m[1] = "LastStandTrigger" -> "LastStand"
      [] m[1] = "GameOver" -> "GameOver"
      [] m[1] = "PlayAgainRequest" -> "PlayAgainPrompt"
      [] OTHER -> ph

RECURSIVE PhaseAfter(_, _)
PhaseAfter(ph, lines) ==
    IF lines = << >> THEN ph
    ELSE PhaseAfter(PhaseOn(ph, Head(lines)), Tail(lines))

\* The view covers one game: it ends when GameOver has been written.
GameInProgress == play_again_state.tag = "None"

\* ---- input.rs, GamePhase::YourTurn
\* Enter: fire at the cursor if that enemy cell is still Empty.
KeyEnter(x, y) ==
    /\ phase = "YourTurn"
    /\ enemy_grid[y][x] = Empty
    /\ outbox' = Append(outbox, AttackMsg(x, y))
    /\ phase' = "OpponentTurn"
    /\ UNCHANGED <<own_grid, enemy_grid, shield_active, current_hand, inbox,
                   last_stand_input, opp_phase>>
    /\ EngineFrame /\ BenchFrame

\* Keys '1'..'5': the card is taken out of the hand, then CardUsed is sent.
KeyCard(card_index) ==
    /\ phase = "YourTurn"
    /\ can_use_card(current_hand, card_index)
    /\ current_hand' = use_card(current_hand, card_index)
    /\ outbox' = Append(outbox, CardUsedMsg(current_hand[card_index + 1]))
    /\ UNCHANGED <<own_grid, enemy_grid, shield_active, phase, inbox,
                   last_stand_input, opp_phase>>
    /\ EngineFrame /\ BenchFrame

\* ---- input.rs, GamePhase::LastStand
\* Keys '.' and '-': check_last_stand_input pushes the key and answers when
\* the input is as long as the sequence; the phase stays LastStand.
KeyLastStand(key) ==
    /\ phase = "LastStand"
    /\ Len(last_stand_input) <= LAST_STAND_KEYS
    /\ last_stand_input' = Append(last_stand_input, key)
    /\ outbox' = IF Len(last_stand_input') = Len(last_stand_sequence)
                 THEN Append(outbox,
                             LastStandResultMsg(last_stand_input' = last_stand_sequence))
                 ELSE outbox
    /\ UNCHANGED <<own_grid, enemy_grid, shield_active, phase, current_hand,
                   inbox, opp_phase>>
    /\ EngineFrame /\ BenchFrame

\* ---- server.rs: the engine reads the next line of the client
ServerReadsClient ==
    /\ GameInProgress
    /\ outbox # << >>
    /\ \/ /\ Head(outbox)[1] = "Attack"
          /\ AttackArm(0, Head(outbox)[2], Head(outbox)[3])
       \/ /\ Head(outbox)[1] = "CardUsed"
          /\ CardUsedArm(0, Head(outbox)[2])
          /\ UNCHANGED cards_used
       \/ /\ Head(outbox)[1] = "LastStandResult"
          /\ CanRead(0)
          /\ event' = <<"msg", 0, Variant(Head(outbox))>>
          /\ Ignore(0)
    /\ outbox' = Tail(outbox)
    /\ inbox' = inbox \o LinesFor(0, sent')
    /\ opp_phase' = PhaseAfter(opp_phase, LinesFor(1, sent'))
    /\ UNCHANGED <<own_grid, enemy_grid, shield_active, phase, current_hand,
                   last_stand_input>>
    /\ BenchFrame

\* The nested last-stand loop reads the next line of the client.
ServerReadsLastStand ==
    /\ ls_target = 0
    /\ outbox # << >>
    /\ LastStandReadArm(Head(outbox))
    /\ outbox' = Tail(outbox)
    /\ inbox' = inbox \o LinesFor(0, sent')
    /\ opp_phase' = PhaseAfter(opp_phase, LinesFor(1, sent'))
    /\ UNCHANGED <<own_grid, enemy_grid, shield_active, phase, current_hand,
                   last_stand_input>>
    /\ BenchFrame

\* ---- server.rs: the engine reads a line of the other peer
\* The other client fires only in its YourTurn phase and moves itself to
\* OpponentTurn (input.rs:91-101); it handles the lines it is written at once.
OpponentAttack(x, y) ==
    /\ GameInProgress
    /\ opp_phase = "YourTurn"
    /\ AttackArm(1, x, y)
    /\ inbox' = inbox \o LinesFor(0, sent')
    /\ opp_phase' = PhaseAfter("OpponentTurn", LinesFor(1, sent'))
    /\ UNCHANGED <<own_grid, enemy_grid, shield_active, phase, current_hand,
                   outbox, last_stand_input>>
    /\ BenchFrame

OpponentCardUsed(card) ==
    /\ GameInProgress
    /\ opp_phase = "YourTurn"
    /\ CardUsedArm(1, card)
    /\ UNCHANGED cards_used
    /\ inbox' = inbox \o LinesFor(0, sent')
    /\ opp_phase' = PhaseAfter(opp_phase, LinesFor(1, sent'))
    /\ UNCHANGED <<own_grid, enemy_grid, shield_active, phase, current_hand,
                   outbox, last_stand_input>>
    /\ BenchFrame

\* The other client answers its last-stand challenge.
OpponentLastStand(success) ==
    /\ ls_target = 1
    /\ opp_phase = "LastStand"
    /\ LastStandReadArm(LastStandResultMsg(success))
    /\ inbox' = inbox \o LinesFor(0, sent')
    /\ opp_phase' = PhaseAfter(opp_phase, LinesFor(1, sent'))
    /\ UNCHANGED <<own_grid, enemy_grid, shield_active, phase, current_hand,
                   outbox, last_stand_input>>
    /\ BenchFrame

\* ---- client.rs: the receiver thread handles the next line
ClientFrame == EngineFrame /\ BenchFrame /\ UNCHANGED <<outbox, opp_phase>>

OnYourTurn ==
    /\ inbox # << >> /\ Head(inbox)[1] = "YourTurn"
    /\ inbox' = Tail(inbox)
    /\ phase' = "YourTurn"
    /\ shield_active' = FALSE
    /\ UNCHANGED <<own_grid, enemy_grid, current_hand>>
    /\ ClientFrame
    /\ UNCHANGED last_stand_input

OnOpponentTurn ==
    /\ inbox # << >> /\ Head(inbox)[1] = "OpponentTurn"
    /\ inbox' = Tail(inbox)
    /\ phase' = "OpponentTurn"
    /\ UNCHANGED <<own_grid, enemy_grid, shield_active, current_hand>>
    /\ ClientFrame
    /\ UNCHANGED last_stand_input

\* Message::Attack: `blocked` is the outcome of the shield's coin toss.
OnAttack(blocked) ==
    /\ inbox # << >> /\ Head(inbox)[1] = "Attack"
    /\ inbox' = Tail(inbox)
    /\ LET x == Head(inbox)[2]
           y == Head(inbox)[3]
           hit == own_grid[y][x] = Ship
           actual_hit == hit /\ ~(shield_active /\ blocked)
       IN  own_grid' = SetCell(own_grid, x, y, IF actual_hit THEN Hit ELSE Miss)
    /\ UNCHANGED <<enemy_grid, shield_active, phase, current_hand>>
    /\ ClientFrame
    /\ UNCHANGED last_stand_input

\* Message::AttackResult: `card` is the card draw_card picks.
OnAttackResult(card) ==
    /\ inbox # << >> /\ Head(inbox)[1] = "AttackResult"
    /\ inbox' = Tail(inbox)
    /\ LET x == Head(inbox)[2]
           y == Head(inbox)[3]
           hit == Head(inbox)[4]
       IN  /\ enemy_grid' = SetCell(enemy_grid, x, y, IF hit THEN Hit ELSE Miss)
           /\ current_hand' = IF hit THEN draw_card(current_hand, card)
                              ELSE current_hand
    /\ UNCHANGED <<own_grid, shield_active, phase>>
    /\ ClientFrame
    /\ UNCHANGED last_stand_input

OnCardEffect ==
    /\ inbox # << >> /\ Head(inbox)[1] = "CardEffect"
    /\ inbox' = Tail(inbox)
    /\ LET effect_type == Head(inbox)[2]
           data == Head(inbox)[3]
       IN  CASE effect_type = "shield_activated" ->
                  /\ shield_active' = TRUE
                  /\ UNCHANGED <<own_grid, enemy_grid>>
             [] effect_type = "missile_strike" ->
                  /\ enemy_grid' =
                       IF IsSome(ParseMissileStrike(data))
                       THEN LET parsed == Unwrap(ParseMissileStrike(data))
                            IN  SetCell(enemy_grid, parsed[1], parsed[2],
                                        IF parsed[3] = <<"hit">> THEN Hit ELSE Miss)
                       ELSE enemy_grid
                  /\ UNCHANGED <<own_grid, shield_active>>
             [] effect_type = "repair" ->
                  /\ own_grid' = repair_ship(own_grid)
                  /\ UNCHANGED <<enemy_grid, shield_active>>
             [] OTHER -> \* radar_reveal touches radar_reveals only
                  UNCHANGED <<own_grid, enemy_grid, shield_active>>
    /\ UNCHANGED <<phase, current_hand>>
    /\ ClientFrame
    /\ UNCHANGED last_stand_input

OnGridUpdate ==
    /\ inbox # << >> /\ Head(inbox)[1] = "GridUpdate"
    /\ inbox' = Tail(inbox)
    /\ own_grid' = Head(inbox)[2]
    /\ UNCHANGED <<enemy_grid, shield_active, phase, current_hand>>
    /\ ClientFrame
    /\ UNCHANGED last_stand_input

OnLastStandTrigger ==
    /\ inbox # << >> /\ Head(inbox)[1] = "LastStandTrigger"
    /\ inbox' = Tail(inbox)
    /\ phase' = "LastStand"
    /\ last_stand_input' = << >>
    /\ UNCHANGED <<own_grid, enemy_grid, shield_active, current_hand>>
    /\ ClientFrame

OnGameOver ==
    /\ inbox # << >> /\ Head(inbox)[1] = "GameOver"
    /\ inbox' = Tail(inbox)
    /\ phase' = "GameOver"
    /\ UNCHANGED <<own_grid, enemy_grid, shield_active, current_hand>>
    /\ ClientFrame
    /\ UNCHANGED last_stand_input

OnPlayAgainRequest ==
    /\ inbox # << >> /\ Head(inbox)[1] = "PlayAgainRequest"
    /\ inbox' = Tail(inbox)
    /\ phase' = "PlayAgainPrompt"
    /\ UNCHANGED <<own_grid, enemy_grid, shield_active, current_hand>>
    /\ ClientFrame
    /\ UNCHANGED last_stand_input

ViewNext ==
    \/ \E x \in Coord : \E y \in Coord : KeyEnter(x, y)
    \/ \E card_index \in 0 .. 4 : KeyCard(card_index)
    \/ \E key \in {".", "-"} : KeyLastStand(key)
    \/ ServerReadsClient
    \/ ServerReadsLastStand
    \/ \E x \in Coord : \E y \in Coord : OpponentAttack(x, y)
    \/ \E card \in PowerUp : OpponentCardUsed(card)
    \/ \E success \in BOOLEAN : OpponentLastStand(success)
    \/ \E p \in Peers : WouldBlock(p)
    \/ PlayAgainTransitions
    \/ OnYourTurn
    \/ OnOpponentTurn
    \/ \E blocked \in BOOLEAN : OnAttack(blocked)
    \/ \E card \in PowerUp : OnAttackResult(card)
    \/ OnCardEffect
    \/ OnGridUpdate
    \/ OnLastStandTrigger
    \/ OnGameOver
    \/ OnPlayAgainRequest

SpecView == ViewInit /\ [][ViewNext]_vars

\* How many cards `card` the hand holds.
CountCard(hand, card) == Len(SelectSeq(hand, LAMBDA c : c = card))

\* C21: while neither the client's own grid nor the engine's grid of the
\* peer has a Hit cell of a not-fully-sunk ship, a Repair use is refused:
\* no step takes a Repair card out of the peer's hand, and no cell of
\* either grid changes in a step that sends CardUsed(Repair).
C21_RepairRefused ==
    [][ ( /\ RepairTargets(own_grid) = << >>
          /\ RepairTargets(Unwrap(grid[0])) = << >> )
        => /\ CountCard(current_hand', "Repair") >= CountCard(current_hand, "Repair")
           /\ ( outbox' = Append(outbox, <<"CardUsed", "Repair">>)
                => own_grid' = own_grid /\ grid' = grid ) ]_vars

\* The cells of g holding state st.
CellsIn(g, st) == { c \in Coord \X Coord : g[c[2]][c[1]] = st }

\* C25: whenever every line sent has been handled (no line of the client is
\* waiting for the engine, no line of the engine is waiting for the
\* client), the client's own_grid and the engine's grid of that peer have
\* the same Ship cells and the same Hit cells.
C25_GridsAgree ==
    (inbox = << >> /\ outbox = << >>)
    => /\ CellsIn(own_grid, "Ship") = CellsIn(Unwrap(grid[0]), "Ship")
       /\ CellsIn(own_grid, "Hit") = CellsIn(Unwrap(grid[0]), "Hit")


\* =================================================================
\* Cards, game over and the last-stand wait in the two-player engine
\* =================================================================
\* (checked under Spec)

\* C22: when a peer uses Repair and the engine's grid of that peer has a Hit
\* cell of a ship not fully sunk, exactly one such cell of that grid goes
\* from Hit back to Ship and no other cell of either grid changes.
C22_RepairRestoresEngineCell ==
    [][ \A p \in Peers :
          ( /\ event' = <<"msg", p, <<"CardUsed", "Repair">> >>
            /\ grid[p] # << >>
            /\ RepairTargets(grid[p][1]) # << >> )
          => /\ \E i \in 1 .. Len(RepairTargets(grid[p][1])) :
                  LET c == RepairTargets(grid[p][1])[i]
                  IN  grid'[p] = << [grid[p][1] EXCEPT ![c[2]][c[1]] = "Ship"] >>
             /\ grid'[1 - p] = grid[1 - p] ]_vars

C24_NoUnattackedCellDisclosed ==
    [][ cards_used = 0
        => \A i \in 1 .. Len(sent') :
              \A p \in Peers :
                 ( /\ sent'[i][1] = p
                   /\ sent'[i][2][1] = "GridUpdate"
                   /\ grid'[1 - p] # << >>
                   /\ sent'[i][2][2] = grid'[1 - p][1] )
                 => \A y \in Coord : \A x \in Coord : sent'[i][2][2][y][x] # "Ship"
      ]_vars

\* C28: whenever GameOver is written, it is written to both peers, with
\* won = true to the peer that made the final attack and won = false to the
\* other, followed at once by PlayAgainRequest to both; the loser's grid
\* has no Ship cell, the loser's last-stand flag is set, and the
\* negotiation is open with both responses empty.
C28_GameOver ==
    [][ Wrote(sent', "GameOver")
        => LET w == IF pc = "last_stand" THEN 1 - ls_target ELSE event'[2]
           IN  /\ pc # "last_stand" => IsAcceptedAttack(event')
               /\ Len(sent') >= 4
               /\ { sent'[i] : i \in (Len(sent') - 3) .. (Len(sent') - 2) } =
                    { <<0, <<"GameOver", w = 0>> >>, <<1, <<"GameOver", w = 1>> >> }
               /\ { sent'[i] : i \in (Len(sent') - 1) .. Len(sent') } =
                    { <<0, <<"PlayAgainRequest">> >>, <<1, <<"PlayAgainRequest">> >> }
               /\ \A i \in 1 .. (Len(sent') - 4) :
                    sent'[i][2][1] \notin {"GameOver", "PlayAgainRequest"}
               /\ grid'[1 - w] # << >>
               /\ \A y \in Coord : \A x \in Coord : grid'[1 - w][1][y][x] # "Ship"
               /\ last_stand_used'[1 - w]
               /\ play_again_state'.tag = "WaitingForResponses"
               /\ play_again_state'.p1_response = << >>
               /\ play_again_state'.p2_response = << >> ]_vars

\* GameOver written by the Attack arm itself: the fleet sunk a second time.
C28_Witness ==
    /\ IsAcceptedAttack(event)
    /\ Cardinality(Lines(sent, 0, "GameOver") \cup Lines(sent, 1, "GameOver")) = 2
    /\ last_stand_used[1 - event[2]]

\* C29: while the engine waits for the LastStandResult of the losing peer,
\* any other line read from that peer is dropped: no session state changes,
\* nothing is written, the wait goes on, and the line is kept nowhere.
C29_OtherLinesDropped ==
    [][ ( /\ pc = "last_stand"
          /\ Len(event') = 3
          /\ event'[1] = "msg"
          /\ event'[3][1] # "LastStandResult" )
        => /\ event' = <<"msg", ls_target, << event'[3][1] >> >>
           /\ sent' = << >>
           /\ <<grid, ready, last_stand_used, current_turn, game_over,
                play_again_state>>' =
              <<grid, ready, last_stand_used, current_turn, game_over,
                play_again_state>>
           /\ <<pc, ls_target, ls_elapsed, eof, cards_used, trigger_count>>' =
              <<pc, ls_target, ls_elapsed, eof, cards_used, trigger_count>> ]_vars

\* A PlayAgainResponse was read and dropped inside the wait.
C29_Witness ==
    /\ pc = "last_stand"
    /\ event = <<"msg", ls_target, <<"PlayAgainResponse">> >>
    /\ sent = << >>


\* =================================================================
\* can_place_ship and place_ship, engine and client
\* =================================================================
\* The engine's functions (server.rs) work on a grid argument, the client's
\* (game_state.rs) on self.own_grid; both are applied to every grid.
MaxLength == 5
Grids == [Coord -> [Coord -> CellState]]

\* GameState::can_place_ship
GameState_can_place_ship(own, x, y, length, horizontal) ==
    IF horizontal
    THEN /\ ~(x + length > GRID_SIZE)
         /\ \A i \in 0 .. (length - 1) : own[y][x + i] = Empty
    ELSE /\ ~(y + length > GRID_SIZE)
         /\ \A i \in 0 .. (length - 1) : own[y + i][x] = Empty

\* GameState::place_ship: the cells written by the `for i in 0..length` loop.
GameState_place_ship(own, x, y, length, horizontal) ==
    [yy \in Coord |-> [xx \in Coord |->
        IF \E i \in 0 .. (length - 1) :
              IF horizontal THEN yy = y /\ xx = x + i ELSE xx = x /\ yy = y + i
        THEN Ship ELSE own[yy][xx]]]

PlaceInit ==
    /\ EngineInit
    /\ HandsInit
    /\ ProbeInit
    /\ SideInit
    /\ board \in Grids
    /\ own_grid = board
    /\ enemy_grid = EmptyGrid
    /\ shield_active = FALSE
    /\ phase = "Placing"
    /\ outbox = << >>
    /\ ships = << >>
    /\ shot = << >>

PlaceFrame ==
    /\ UNCHANGED <<grid, ready, last_stand_used, current_turn, game_over,
                   play_again_state, pc, ls_target, ls_elapsed, eof, cards_used,
                   sent, event, trigger_count>>
    /\ UNCHANGED <<current_hand, ai_hand, inbox, hits, enemy_grid,
                   shield_active, phase, outbox, tried_positions, returned,
                   last_stand_input, opp_phase, ai_fired, ai_shield_active>>

\* Both can_place_ship are asked about the same candidate.
CanPlaceProbe(x, y, length, horizontal) ==
    /\ shot' = <<"can_place_ship", x, y, length, horizontal,
                 can_place_ship(board, x, y, length, horizontal),
                 GameState_can_place_ship(own_grid, x, y, length, horizontal)>>
    /\ UNCHANGED <<board, own_grid, ships>>
    /\ PlaceFrame

\* Both place_ship run; every caller checks can_place_ship first
\* (server.rs:69-72, game_state.rs:344-346, input.rs placing phase).
PlaceShipCall(x, y, length, horizontal) ==
    /\ can_place_ship(board, x, y, length, horizontal)
    /\ GameState_can_place_ship(own_grid, x, y, length, horizontal)
    /\ board' = place_ship(board, x, y, length, horizontal)
    /\ own_grid' = GameState_place_ship(own_grid, x, y, length, horizontal)
    /\ ships' = Append(ships, <<x, y, length, horizontal>>)
    /\ shot' = <<"place_ship", x, y, length, horizontal>>
    /\ PlaceFrame

PlaceNext ==
    \/ \E x \in Coord : \E y \in Coord : \E length \in 1 .. MaxLength :
         \E horizontal \in BOOLEAN : CanPlaceProbe(x, y, length, horizontal)
    \/ \E x \in Coord : \E y \in Coord : \E length \in 1 .. MaxLength :
         \E horizontal \in BOOLEAN : PlaceShipCall(x, y, length, horizontal)

SpecPlace == PlaceInit /\ [][PlaceNext]_vars

\* The cells a ship of `length` anchored at (x, y) would cover.
Span(x, y, length, horizontal) ==
    { IF horizontal THEN <<x + i, y>> ELSE <<x, y + i>> : i \in 0 .. (length - 1) }

\* C26: for every grid, every anchor inside it, every length 1..5 and both
\* orientations, can_place_ship is true iff all `length` cells from the
\* anchor lie inside the grid and are Empty; the engine's and the client's
\* function agree; and place_ship turns exactly those cells into Ship.
C26_CanPlaceShip ==
    [][ /\ ( Len(shot') = 7 /\ shot'[1] = "can_place_ship" )
           => LET fits == \A c \in Span(shot'[2], shot'[3], shot'[4], shot'[5]) :
                              /\ c[1] < GRID_SIZE
                              /\ c[2] < GRID_SIZE
                              /\ board[c[2]][c[1]] = "Empty"
              IN  shot'[6] = fits /\ shot'[7] = fits
        /\ ( Len(shot') = 5 /\ shot'[1] = "place_ship" )
           => \A y \in Coord : \A x \in Coord :
                 /\ board'[y][x] =
                      IF <<x, y>> \in Span(shot'[2], shot'[3], shot'[4], shot'[5])
                      THEN "Ship" ELSE board[y][x]
                 /\ own_grid'[y][x] = board'[y][x] ]_vars

\* A destroyer was placed on the last two cells of a row that held a Miss.
C26_Witness ==
    /\ shot = <<"place_ship", GRID_SIZE - 2, 0, 2, TRUE>>
    /\ board[0][GRID_SIZE - 1] = "Ship"
    /\ \E y \in Coord : \E x \in Coord : board[y][x] = "Miss"
    /\ own_grid = board


\* =================================================================
\* The grids the engine records
\* =================================================================
\* PlaceShips(Vec<Vec<CellState>>) deserializes any grid; the peers send
\* every grid over three of the cell states, the reads go round the loop.
SentGrids == [Coord -> [Coord -> {Empty, Ship, Hit}]]

RecordNext ==
    \/ \E p \in Peers : \E g \in SentGrids : PlaceShips(p, g)
    \/ \E p \in Peers : WouldBlock(p)
    \/ PlayAgainTransitions

SpecRecord == Init /\ [][RecordNext]_vars

\* C27: every grid the engine records as a peer's grid is a legal fleet
\* (here: cells only Empty or Ship, the Ship cells being exactly one
\* destroyer, two adjacent cells inside the grid); a PlaceShips carrying
\* any other grid leaves the recorded grid as it was.
C27_RecordedGridIsLegalFleet ==
    [][ \A p \in Peers :
          ( grid'[p] # grid[p] /\ grid'[p] # << >> )
          => LET g == grid'[p][1]
                 cells == {c \in Coord \X Coord : g[c[2]][c[1]] = "Ship"}
             IN  /\ \A y \in Coord : \A x \in Coord : g[y][x] \in {"Empty", "Ship"}
                 /\ Cardinality(cells) = 2
                 /\ \E c \in cells : \E d \in cells : Adjacent(c, d) ]_vars


\* =================================================================
\* The sampling loop of restore_random_ship
\* =================================================================
\* server.rs:33-76 and game_state.rs:310-355 are the same routine, the
\* first on a grid argument, the second on self.own_grid.  `board` is the
\* grid; empty_positions is computed once and the grid is written only by
\* the probe that succeeds, so empty_positions(board) is the list of the
\* call until it returns.

RestoreInit ==
    /\ EngineInit
    /\ HandsInit
    /\ ProbeInit
    /\ SideInit
    /\ board \in Grids
    /\ own_grid = EmptyGrid
    /\ enemy_grid = EmptyGrid
    /\ shield_active = FALSE
    /\ phase = "Placing"
    /\ outbox = << >>
    /\ ships = << >>
    /\ shot = << >>

RestoreFrame ==
    /\ UNCHANGED <<grid, ready, last_stand_used, current_turn, game_over,
                   play_again_state, pc, ls_target, ls_elapsed, eof, cards_used,
                   sent, event, trigger_count>>
    /\ UNCHANGED <<ships, shot, current_hand, ai_hand, inbox, hits, own_grid,
                   enemy_grid, shield_active, phase, outbox, last_stand_input,
                   opp_phase, ai_fired, ai_shield_active>>

\* `while tried_positions.len() < empty_positions.len()`
Sampling ==
    /\ returned = None
    /\ Cardinality(tried_positions) < Cardinality(empty_positions(board))

\* The sampled position was tried before: `continue`.
SampleTried(pos) ==
    /\ Sampling
    /\ pos \in empty_positions(board)
    /\ pos \in tried_positions
    /\ UNCHANGED <<board, tried_positions, returned>>
    /\ RestoreFrame

\* A position sampled for the first time is inserted and probed.
SampleFresh(pos) ==
    /\ Sampling
    /\ pos \in empty_positions(board)
    /\ pos \notin tried_positions
    /\ tried_positions' = tried_positions \cup {pos}
    /\ IF IsSome(RestoreAt(board, pos[1], pos[2]))
       THEN /\ board' = Unwrap(RestoreAt(board, pos[1], pos[2]))
            /\ returned' = Some(TRUE)
       ELSE UNCHANGED <<board, returned>>
    /\ RestoreFrame

\* `return false`: no Empty position at all, or every one tried in vain.
ReturnFalse ==
    /\ returned = None
    /\ ~(Cardinality(tried_positions) < Cardinality(empty_positions(board)))
    /\ returned' = Some(FALSE)
    /\ UNCHANGED <<board, tried_positions>>
    /\ RestoreFrame

RestoreNext ==
    \/ \E pos \in Coord \X Coord : SampleTried(pos)
    \/ \E pos \in Coord \X Coord : SampleFresh(pos)
    \/ ReturnFalse

SpecRestore == RestoreInit /\ [][RestoreNext]_vars

\* rng.random_range is uniform over the indices, so while an untried
\* position remains one is sampled eventually; the return is a plain step.
SpecRestoreFair ==
    /\ SpecRestore
    /\ WF_vars(\E pos \in Coord \X Coord : SampleFresh(pos))
    /\ WF_vars(ReturnFalse)

\* Some Empty cell anchors an in-bounds, all-Empty span of two cells.
HasAnchor(g) ==
    \E x \in Coord : \E y \in Coord :
       /\ g[y][x] = "Empty"
       /\ \/ (x + 1 < GRID_SIZE /\ g[y][x + 1] = "Empty")
          \/ (y + 1 < GRID_SIZE /\ g[y + 1][x] = "Empty")

\* C30: restore_random_ship returns (fair sampling assumed); it returns
\* false only when no Empty cell anchors an in-bounds all-Empty span of
\* length 2 in either orientation; the step that returns true turns exactly
\* two adjacent Empty cells into Ship; the grid changes in no other step,
\* so a call that returns false leaves it as it was.
C30_RestoreRandomShip ==
    /\ <>(returned # << >>)
    /\ [](returned = <<FALSE>> => ~HasAnchor(board))
    /\ [][ /\ (returned' = <<TRUE>> /\ returned = << >>)
              => /\ Cardinality(Changed(board, board')) = 2
                 /\ \A c \in Changed(board, board') :
                       /\ board[c[2]][c[1]] = "Empty"
                       /\ board'[c[2]][c[1]] = "Ship"
                       /\ \E d \in Changed(board, board') : Adjacent(c, d)
           /\ board' # board => (returned' = <<TRUE>> /\ returned = << >>)
           /\ returned # << >> => returned' = returned ]_vars

\* The call returned true after a probe of another position had failed.
C30_Witness ==
    /\ returned = <<TRUE>>
    /\ Cardinality(tried_positions) >= 2
    /\ \E y \in Coord : \E x \in Coord : board[y][x] = "Miss"


\* =================================================================
\* Sunk fleets, finished games, turns and cards in the two-player engine
\* =================================================================
\* (properties of Spec)

\* C34: while a game is in progress no peer's grid is left without a Ship
\* cell unnoticed: the step that takes the last Ship cell of a peer's grid
\* (a turn attack or a MissileStrike) writes LastStandTrigger to that peer
\* or GameOver to both before the engine goes back to reading turn input.
C34_SunkFleetNoticed ==
    [][ \A p \in Peers :
          ( /\ ready[0] /\ ready[1]
            /\ play_again_state.tag = "None"
            /\ grid[p] # << >>
            /\ grid'[p] # << >>
            /\ \E y \in Coord : \E x \in Coord : grid[p][1][y][x] = "Ship"
            /\ \A y \in Coord : \A x \in Coord : grid'[p][1][y][x] # "Ship" )
          => \/ Lines(sent', p, "LastStandTrigger") # {}
             \/ ( /\ Lines(sent', 0, "GameOver") # {}
                  /\ Lines(sent', 1, "GameOver") # {} ) ]_vars

\* C35: once GameOver has been written (the negotiation is open) no Attack
\* is resolved and no second GameOver is written before the new game.
C35_NoAttackAfterGameOver ==
    [][ play_again_state.tag = "WaitingForResponses"
        => /\ ~IsAcceptedAttack(event')
           /\ ~Wrote(sent', "GameOver") ]_vars

\* C37: the peer that most recently received YourTurn is the peer whose
\* index is current_turn: a step writes YourTurn to a peer only when it
\* leaves current_turn at that peer, and a step of a game that changes
\* current_turn writes YourTurn to the new peer on turn.
C37_YourTurnMatchesTurn ==
    [][ /\ \A p \in Peers :
              Lines(sent', p, "YourTurn") # {} => current_turn' = p
        /\ ( current_turn' # current_turn /\ ~Wrote(sent', "NewGameStart") )
              => Lines(sent', current_turn', "YourTurn") # {} ]_vars

\* C38: the effect of a CardUsed line is applied only if the sender holds
\* the card.  Cards come from hits alone, so the peer whose first card of
\* the game takes effect (some line is written for it) has landed a hit:
\* the opponent's grid holds a Hit cell.
C38_CardNeedsHit ==
    [][ \A p \in Peers :
          ( /\ cards_used = 0
            /\ ready[0] /\ ready[1]
            /\ Len(event') = 3
            /\ event'[1] = "msg"
            /\ event'[2] = p
            /\ event'[3][1] = "CardUsed"
            /\ sent' # << >> )
          => /\ grid[1 - p] # << >>
             /\ \E y \in Coord : \E x \in Coord : grid[1 - p][1][y][x] = "Hit" ]_vars


\* =================================================================
\* Grid copies, shields and turns between the engine and two clients
\* =================================================================

\* C39: on every copy of a grid a Ship cell only ever changes to Hit, never
\* to Miss or Empty, also when a Shield blocks a hit.  Stated for the
\* client's copy of its own fleet.
C39_ShipOnlyBecomesHit ==
    [][ \A y \in Coord : \A x \in Coord :
          own_grid[y][x] = "Ship" => own_grid'[y][x] \in {"Ship", "Hit"} ]_vars

\* C40: with two clients that attack only in their YourTurn phase a game in
\* progress never gets stuck.  Stated as safety: when every written line
\* has been handled, no line is waiting to be read and no last-stand
\* challenge is open, some client is in the YourTurn phase.
C40_SomeClientCanAttack ==
    ( /\ play_again_state.tag = "None"
      /\ pc \in {"read_p1", "read_p2"}
      /\ ~eof[0] /\ ~eof[1]
      /\ inbox = << >>
      /\ outbox = << >> )
    => (phase = "YourTurn" \/ opp_phase = "YourTurn")

\* C31: a Shield activation covers at most one opponent turn; in
\* particular the flag is not still set across a last stand.  Stated for
\* the state in which the holder's last stand has been resolved and
\* every line written to it has been handled.
C31_ShieldClearedAcrossLastStand ==
    ( /\ last_stand_used[0]
      /\ play_again_state.tag = "None"
      /\ pc \in {"read_p1", "read_p2"}
      /\ inbox = << >>
      /\ outbox = << >> )
    => ~shield_active


\* =================================================================
\* Attack coordinates outside the grid
\* =================================================================
\* Attack { x: usize, y: usize } deserializes any index.  The arm reads
\* `grid[y][x]` on a Vec<Vec<CellState>> (server.rs:232-233): an index past
\* the end panics, and the panic ends run_server.
AnyIndex == 0 .. GRID_SIZE

AttackOutOfRange(p, x, y) ==
    /\ UNCHANGED bench
    /\ CanRead(p)
    /\ (x >= GRID_SIZE \/ y >= GRID_SIZE)
    /\ IF AttackGuard(p) /\ IsSome(grid[Other(p)])
       THEN /\ event' = <<"msg", p, AttackMsg(x, y)>>
            /\ pc' = "panicked"
            /\ sent' = << >>
            /\ UNCHANGED <<engine, trigger_count, cards_used>>
            /\ MainFrame
       ELSE /\ event' = <<"msg", p, Variant(AttackMsg(x, y))>>
            /\ Ignore(p)

AbortNext ==
    \/ Next
    \/ \E p \in Peers : \E x \in AnyIndex : \E y \in AnyIndex :
          AttackOutOfRange(p, x, y)

SpecAbort == Init /\ [][AbortNext]_vars

\* C36: no well-formed line makes the engine abort: the engine is always
\* at one of the positions of its loops or has left the session loop
\* through its exit, never stopped by a panic.
C36_NeverAborts == pc \in {"read_p1", "read_p2", "play_again", "last_stand", "done"}


\* =================================================================
\* The session against the AI (run_server_ai)
\* =================================================================
\* grid[0] is player_grid, grid[1] holds ai_grid; ai_hand, ai_fired and
\* ai_shield_active are the locals of the same names.  pc is "read_p1"
\* while the loop reads the player's stream, "ai_select" inside the AI's
\* target-selection loop and "done" after the loop was left.

\* The boards the placement loop can produce for the fleet of the model.
AiFleets ==
    { place_ship(EmptyGrid, x, y, DESTROYER_LEN, horiz) :
        <<x, y, horiz>> \in { t \in Coord \X Coord \X BOOLEAN :
              can_place_ship(EmptyGrid, t[1], t[2], DESTROYER_LEN, t[3]) } }

AiInit ==
    /\ grid \in { [p \in Peers |-> IF p = 0 THEN None ELSE Some(g)] : g \in AiFleets }
    /\ ready = [p \in Peers |-> FALSE]
    /\ last_stand_used = [p \in Peers |-> FALSE]
    /\ current_turn = 0
    /\ game_over = FALSE
    /\ play_again_state = PANone
    /\ pc = "read_p1"
    /\ ls_target = 0
    /\ ls_elapsed = 0
    /\ eof = [p \in Peers |-> FALSE]
    /\ cards_used = 0
    /\ sent = << >>
    /\ event = <<"init">>
    /\ trigger_count = [p \in Peers |-> 0]
    /\ HandsInit
    /\ ClientInit
    /\ ProbeInit
    /\ SideInit
    /\ board = EmptyGrid
    /\ ships = << >>
    /\ shot = << >>

AiFrame ==
    UNCHANGED <<ready, last_stand_used, current_turn, game_over,
                play_again_state, ls_target, ls_elapsed, eof, cards_used,
                trigger_count, board, ships, shot, current_hand, inbox,
                own_grid, enemy_grid, shield_active, phase, outbox,
                tried_positions, returned, last_stand_input, opp_phase>>

\* is_ship_fully_sunk of server_ai.rs: the extent of the run of Ship|Hit
\* cells through (x, y), then no Ship cell inside it.
RECURSIVE LowEnd(_, _, _, _)
LowEnd(g, fixed, k, horizontal) ==
    IF k > 0 /\ ShipOrHit(IF horizontal THEN g[fixed][k - 1] ELSE g[k - 1][fixed])
    THEN LowEnd(g, fixed, k - 1, horizontal)
    ELSE k

RECURSIVE HighEnd(_, _, _, _)
HighEnd(g, fixed, k, horizontal) ==
    IF k < GRID_SIZE - 1
       /\ ShipOrHit(IF horizontal THEN g[fixed][k + 1] ELSE g[k + 1][fixed])
    THEN HighEnd(g, fixed, k + 1, horizontal)
    ELSE k

is_ship_fully_sunk(g, x, y) ==
    IF g[y][x] # Hit THEN FALSE
    ELSE LET is_horizontal == \/ (x > 0 /\ ShipOrHit(g[y][x - 1]))
                              \/ (x + 1 < GRID_SIZE /\ ShipOrHit(g[y][x + 1]))
         IN  IF is_horizontal
             THEN \A i \in LowEnd(g, y, x, TRUE) .. HighEnd(g, y, x, TRUE) :
                     g[y][i] # Ship
             ELSE \A r \in LowEnd(g, x, y, FALSE) .. HighEnd(g, x, y, FALSE) :
                     g[r][x] # Ship

\* The Hit cells of a ship that is not fully sunk, in row-major order.
AiRepairTargets(g) ==
    SelectSeq(RowMajor, LAMBDA c : g[c[2]][c[1]] = Hit
                                   /\ ~is_ship_fully_sunk(g, c[1], c[2]))

\* "AI uses cards": the hand, both grids and the shield flag after the card
\* at card_index was looked at; `draws` are the cells of a MissileStrike.
AiPlaysCard(hand, ai_grid, player, card_index, draws) ==
    LET card == hand[card_index + 1]
        keep == [hand |-> hand, ai_grid |-> ai_grid, player |-> player,
                 shield |-> FALSE]
    IN  IF hand = << >> THEN keep
        ELSE IF card = Repair
        THEN IF AiRepairTargets(ai_grid) = << >> THEN keep
             ELSE LET c == Head(AiRepairTargets(ai_grid))
                  IN  [keep EXCEPT !.hand = VecRemove(hand, card_index),
                                   !.ai_grid = SetCell(ai_grid, c[1], c[2], Ship)]
        ELSE IF card = Shield
        THEN [keep EXCEPT !.hand = VecRemove(hand, card_index), !.shield = TRUE]
        ELSE IF card = MissileStrike
        THEN [keep EXCEPT !.hand = VecRemove(hand, card_index),
                          !.player = StrikeAll(player, draws)]
        ELSE [keep EXCEPT !.hand = VecRemove(hand, card_index)]

\* The random choices that matter for the card at card_index.
AiDraws(hand, player, card_index) ==
    IF hand # << >> /\ hand[card_index + 1] = MissileStrike
    THEN MissileDraws(player)
    ELSE { << >> }

\* Hits the player scores against the AI in one run of the model.
MaxAiHits == 1

\* Message::Attack, up to the AI's target-selection loop.  `blocked` is
\* the shield's coin, ai_card and card the two cards drawn on a hit; the
\* card the AI plays and the cells of its MissileStrike are chosen inside.
AiSessionAttack(x, y, blocked, ai_card, card) ==
    /\ pc = "read_p1"
    /\ LET ai_grid == Unwrap(grid[1])
           hit == ai_grid[y][x] = Ship
           actual_hit == hit /\ ~(ai_shield_active /\ blocked)
           g1 == SetCell(ai_grid, x, y, IF actual_hit THEN Hit ELSE Miss)
           sunk == actual_hit /\ is_ship_sunk_at(g1, x, y)
           hand1 == IF actual_hit THEN ai_draw_card(ai_hand, ai_card) ELSE ai_hand
           lines1 == << To(0, AttackResultMsg(x, y, actual_hit, sunk)) >>
                     \o IF actual_hit THEN << To(0, CardDrawnMsg(card)) >> ELSE << >>
       IN  /\ blocked => (hit /\ ai_shield_active)
           /\ ~actual_hit => (ai_card = Shield /\ card = Shield)
           /\ actual_hit => hits < MaxAiHits
           /\ hits' = IF actual_hit THEN hits + 1 ELSE hits
           /\ event' = <<"msg", 0, AttackMsg(x, y)>>
           /\ IF all_ships_sunk(g1)
              THEN /\ grid' = [grid EXCEPT ![1] = Some(g1)]
                   /\ ai_hand' = hand1
                   /\ sent' = lines1 \o << To(0, GameOverMsg(TRUE)),
                                           To(0, PlayAgainRequestMsg) >>
                   /\ UNCHANGED <<pc, ai_fired, ai_shield_active>>
              ELSE IF ~IsSome(grid[0])
              THEN /\ grid' = [grid EXCEPT ![1] = Some(g1)]
                   /\ ai_hand' = hand1
                   /\ sent' = lines1
                   /\ UNCHANGED <<pc, ai_fired, ai_shield_active>>
              ELSE /\ \E card_index \in 0 .. (IF hand1 = << >> THEN 0 ELSE Len(hand1) - 1) :
                        \E draws \in AiDraws(hand1, Unwrap(grid[0]), card_index) :
                          LET after == AiPlaysCard(hand1, g1, Unwrap(grid[0]),
                                                   card_index, draws)
                          IN  /\ grid' = [grid EXCEPT ![0] = Some(after.player),
                                                      ![1] = Some(after.ai_grid)]
                              /\ ai_hand' = after.hand
                              /\ ai_shield_active' = after.shield
                   /\ sent' = lines1 \o << To(0, OpponentTurnMsg) >>
                   /\ pc' = "ai_select"
                   /\ UNCHANGED ai_fired
    /\ AiFrame

\* One round of the selection loop that draws a cell already fired at.
AiSelectAgain(sx, sy) ==
    /\ pc = "ai_select"
    /\ ai_fired[sy][sx]
    /\ UNCHANGED vars

\* The selection loop breaks with an unfired cell; the AI attacks it.
AiSelectTarget(sx, sy) ==
    /\ pc = "ai_select"
    /\ ~ai_fired[sy][sx]
    /\ ai_fired' = [ai_fired EXCEPT ![sy][sx] = TRUE]
    /\ LET player == Unwrap(grid[0])
           ai_hit == player[sy][sx] = Ship
           g2 == SetCell(player, sx, sy, IF ai_hit THEN Hit ELSE Miss)
       IN  /\ grid' = [grid EXCEPT ![0] = Some(g2)]
           /\ sent' = << To(0, AttackMsg(sx, sy)) >>
                      \o IF all_ships_sunk(g2)
                         THEN << To(0, GameOverMsg(FALSE)), To(0, PlayAgainRequestMsg) >>
                         ELSE << To(0, YourTurnMsg) >>
    /\ event' = <<"ai_attack", sx, sy>>
    /\ pc' = "read_p1"
    /\ UNCHANGED <<ai_hand, ai_shield_active>>
    /\ UNCHANGED hits
    /\ AiFrame

\* Message::CardUsed
AiSessionCardUsed(card) ==
    /\ pc = "read_p1"
    /\ event' = <<"msg", 0, CardUsedMsg(card)>>
    /\ LET ai_grid == Unwrap(grid[1])
       IN  CASE card = Shield ->
                  /\ sent' = << To(0, CardEffectMsg("shield_activated", << >>)) >>
                  /\ UNCHANGED grid
             [] card = Radar ->
                  /\ sent' = RadarLines(0, ai_grid)
                  /\ UNCHANGED grid
             [] card = Repair ->
                  /\ sent' = << To(0, CardEffectMsg("repair", << >>)) >>
                  /\ UNCHANGED grid
             [] card = MissileStrike ->
                  \E draws \in MissileDraws(ai_grid) :
                     LET g2 == StrikeAll(ai_grid, draws)
                     IN  /\ grid' = [grid EXCEPT ![1] = Some(g2)]
                         /\ sent' =
                              [i \in 1 .. Len(draws) |->
                                 To(0, CardEffectMsg("missile_strike",
                                     <<draws[i][1], draws[i][2],
                                       IF ai_grid[draws[i][2]][draws[i][1]] = Ship
                                       THEN "hit" ELSE "miss">>))]
                              \o IF all_ships_sunk(g2)
                                 THEN << To(0, GameOverMsg(TRUE)),
                                         To(0, PlayAgainRequestMsg) >>
                                 ELSE << >>
    /\ UNCHANGED <<pc, ai_hand, ai_fired, ai_shield_active>>
    /\ UNCHANGED hits
    /\ AiFrame

\* Message::PlaceShips
AiSessionPlaceShips(client_grid) ==
    /\ pc = "read_p1"
    /\ event' = <<"msg", 0, PlaceShipsMsg(client_grid)>>
    /\ grid' = [grid EXCEPT ![0] = Some(client_grid)]
    /\ sent' = << To(0, GameStartMsg), To(0, YourTurnMsg) >>
    /\ UNCHANGED <<pc, ai_hand, ai_fired, ai_shield_active>>
    /\ UNCHANGED hits
    /\ AiFrame

\* Message::PlayAgainResponse
AiSessionPlayAgain(wants_to_play, new_grid) ==
    /\ pc = "read_p1"
    /\ event' = <<"msg", 0, PlayAgainResponseMsg(wants_to_play)>>
    /\ IF wants_to_play
       THEN /\ grid' = [p \in Peers |-> IF p = 0 THEN None ELSE Some(new_grid)]
            /\ ai_fired' = [y \in Coord |-> [x \in Coord |-> FALSE]]
            /\ ai_hand' = << >>
            /\ ai_shield_active' = FALSE
            /\ sent' = << To(0, NewGameStartMsg) >>
            /\ UNCHANGED pc
       ELSE /\ pc' = "done"
            /\ sent' = << >>
            /\ UNCHANGED <<grid, ai_fired, ai_hand, ai_shield_active>>
    /\ UNCHANGED hits
    /\ AiFrame

\* Message::Quit, Ok(0) and a read error leave the loop.
AiSessionEnds(why) ==
    /\ pc = "read_p1"
    /\ event' = why
    /\ pc' = "done"
    /\ sent' = << >>
    /\ UNCHANGED <<grid, ai_fired, ai_hand, ai_shield_active>>
    /\ UNCHANGED hits
    /\ AiFrame

\* `_ => {}`: any other line is dropped.
AiSessionOther(m) ==
    /\ pc = "read_p1"
    /\ event' = <<"msg", 0, Variant(m)>>
    /\ sent' = << >>
    /\ UNCHANGED <<pc, grid, ai_fired, ai_hand, ai_shield_active>>
    /\ UNCHANGED hits
    /\ AiFrame

AiNext ==
    \/ \E x \in Coord : \E y \in Coord : \E blocked \in BOOLEAN :
         \E ai_card \in PowerUp : \E card \in DrawnCards :
           AiSessionAttack(x, y, blocked, ai_card, card)
    \/ \E sx \in Coord : \E sy \in Coord : AiSelectAgain(sx, sy)
    \/ \E sx \in Coord : \E sy \in Coord : AiSelectTarget(sx, sy)
    \/ \E card \in PowerUp : AiSessionCardUsed(card)
    \/ \E client_grid \in Fleets : AiSessionPlaceShips(client_grid)
    \/ \E wants_to_play \in BOOLEAN : \E new_grid \in AiFleets :
         AiSessionPlayAgain(wants_to_play, new_grid)
    \/ \E why \in {<<"msg", 0, QuitMsg>>, <<"eof", 0>>} : AiSessionEnds(why)
    \/ \E m \in {LastStandResultMsg(TRUE)} : AiSessionOther(m)

SpecAi == AiInit /\ [][AiNext]_vars

\* C32: every time the AI chooses an attack target the selection loop
\* terminates with a cell it has not fired at in the current game: the AI
\* is never about to attack with every cell already fired at.
C32_SelectionTerminates ==
    pc = "ai_select" => \E y \in Coord : \E x \in Coord : ~ai_fired[y][x]

\* C33: the AI session applies the rules of the two-player engine: when
\* the AI's attack leaves the player's grid with no Ship cell and the
\* player has not used its last stand, LastStandTrigger is written to the
\* player and GameOver is not.
C33_AiSessionOffersLastStand ==
    [][ ( /\ event'[1] = "ai_attack"
          /\ ~last_stand_used[0]
          /\ grid[0] # << >>
          /\ \E y \in Coord : \E x \in Coord : grid[0][1][y][x] = "Ship"
          /\ \A y \in Coord : \A x \in Coord : grid'[0][1][y][x] # "Ship" )
        => /\ \E i \in 1 .. Len(sent') : sent'[i] = <<0, <<"LastStandTrigger">>>>
           /\ \A i \in 1 .. Len(sent') : sent'[i][2][1] # "GameOver" ]_vars

====
